---- MODULE Spec2Model ----
(***************************************************************************)
(* Model of the hand/arm teleoperation pipeline.                           *)
(*                                                                         *)
(* Part 1: InspireHandDriver (control/envs/g1/utils/inspire_driver.py),    *)
(* the process-wide bridge that owns the DDS topic pair of both hands.     *)
(* Part 2: PicoHandTrackingServer (control/teleop/device/pico/             *)
(* pico_hand_tracking_server.py), the relay that answers each request with *)
(* one tracking snapshot.                                                  *)
(* Part 3: PicoHandTrackingClientStreamer (control/teleop/streamers/       *)
(* pico_hand_tracking_client_streamer.py), which requests snapshots and    *)
(* derives the fingertip tensors of both hands.                            *)
(* Part 4: G1GripperInverseKinematicsSolver (control/teleop/solver/hand/   *)
(* g1_gripper_ik_solver.py), which turns a fingertip tensor into a hand    *)
(* command.                                                                *)
(*                                                                         *)
(* Float values are represented by integers (1 stands for 1.0).  Python    *)
(* arrays and lists are functions over 0..n-1, so that indices read as in  *)
(* the source.                                                             *)
(***************************************************************************)
EXTENDS Integers, Sequences, FiniteSets, TLC

(***************************************************************************)
(* Program constants                                                       *)
(***************************************************************************)
NUM_MOTORS_PER_HAND == 6
TOTAL_MOTORS == 12

(***************************************************************************)
(* Bounds of the model                                                     *)
(***************************************************************************)
\* calls of set_hand_cmd explored
MaxSetCalls == 2
\* calls of get_hand_state explored
MaxGetCalls == 1
\* iterations of _recv_loop explored (all ingestion threads together)
MaxRecvIters == 2
\* iterations of _send_loop explored (all emission threads together)
MaxSendIters == 2
\* requests the relay server receives
MaxRequests == 2
\* calls of start_streaming, of stop_streaming and of get on the relay client
MaxStarts == 2
MaxStops == 2
MaxGets == 2
\* calls of the retargeting solver
MaxCalls == 3
\* calls of the solver in the sweep of fingertip distances
MaxSweeps == 2
\* cycles of the teleop control loop
MaxCycles == 3
\* iterations of each task of the driver, statement by statement
MaxTaskIters == 1
\* set_hand_cmd calls, statement by statement
MaxCmdCalls == 1
\* cycles of the teleop policy
MaxPolicyCycles == 2
\* override_wbc_config calls on one dictionary
MaxOverrides == 2

\* threads that call InspireHandDriver()
Ctors == {"T1", "T2"}

Min(a, b) == IF a < b THEN a ELSE b

\* len() of a Python list or array
PyLen(a) == Cardinality(DOMAIN a)

\* np.zeros(n), np.ones(n)
NpZeros(n) == [i \in 0..(n - 1) |-> 0]
NpOnes(n) == [i \in 0..(n - 1) |-> 1]

\* an attribute that __init__ has not assigned yet
Unset == <<>>

(***************************************************************************)
(* Inputs                                                                  *)
(***************************************************************************)
\* a q_cmd array of n entries, distinct per index
QCmd(n, b) == [i \in 0..(n - 1) |-> b + i]

\* arguments of set_hand_cmd: shorter than, equal to and longer than a hand
QCmds == {QCmd(3, 20), QCmd(6, 30), QCmd(7, 40)}

\* a MotorStates_ message of k entries from the hand firmware
StateFrame(k, f) ==
    [i \in 0..(k - 1) |-> [q |-> 100 * f + i, dq |-> 200 * f + i, tau_est |-> 300 * f + i]]

\* frames the state topic delivers: empty, short, exact and over-long
StateFrames == {StateFrame(0, 0), StateFrame(5, 1), StateFrame(12, 2), StateFrame(13, 3)}

\* what sub.Read() can do: return None, return a message, or raise
ReadNone == [kind |-> "none", states |-> <<>>]
ReadMsg(m) == [kind |-> "msg", states |-> m]
ReadRaise == [kind |-> "raise", states |-> <<>>]
ReadOutcomes == {ReadNone, ReadRaise} \cup {ReadMsg(m) : m \in StateFrames}

VARIABLES
    ctorPc,        \* per constructing thread: position in __new__/__init__
    ctorRet,       \* per constructing thread: the object __new__ returned (0: none yet)
    instance,      \* cls._instance (0 is None)
    initialized,   \* _instance._initialized
    factoryCalls,  \* calls of ChannelFactoryInitialize
    factoryFailed, \* a ChannelFactoryInitialize call raised and the warning was printed
    pubCount,      \* ChannelPublisher objects created
    subCount,      \* ChannelSubscriber objects created
    recvStarted,   \* _recv_loop threads started
    sendStarted,   \* _send_loop threads started
    joint_q, joint_dq, joint_tau,   \* state mirror
    stateGen,      \* identity of the arrays bound to joint_q/joint_dq/joint_tau
    cmd_q,         \* command mirror
    running,       \* self.running
    recvPc, recvMsg, recvI,   \* per _recv_loop thread: position, msg, i
    sendPc, sendMsg,          \* per _send_loop thread: position, msg
    wire,          \* last frame handed to pub.Write that was sent
    nSent,         \* frames sent
    nSet,          \* set_hand_cmd calls so far, per hand
    nGet,          \* get_hand_state calls so far
    nRecv,         \* _recv_loop iterations so far
    nSend,         \* _send_loop iterations so far
    lastSet,       \* the arguments of the last set_hand_cmd call
    held,          \* what the caller of get_hand_state holds
    committed      \* the state mirror as of the last completed ingestion iteration

ctorVars == <<ctorPc, ctorRet, instance, initialized, factoryCalls, factoryFailed,
              pubCount, subCount, recvStarted, sendStarted>>
stateVars == <<joint_q, joint_dq, joint_tau, stateGen, committed>>
recvVars == <<recvPc, recvMsg, recvI, nRecv>>
sendVars == <<sendPc, sendMsg, wire, nSent, nSend>>
callVars == <<nSet, nGet, held, lastSet>>
driverVars == <<ctorVars, stateVars, cmd_q, running, recvVars, sendVars, callVars>>

VARIABLES
    server,        \* the PicoHandTrackingServer object and the position of its process
    client,        \* the PicoHandTrackingClientStreamer object and its last call
    solver,        \* the G1GripperInverseKinematicsSolver object and its last call
    loop,          \* the locals of the teleop control loop's main() and its position
    bridge,        \* the InspireHandDriver object's command side, statement by statement
    policy,        \* the teleop policy's cycle: the relay client, then the two hand solvers
    wbc            \* the WBC configuration dictionary and the last override_wbc_config call

relayVars == <<server, client, solver, loop, bridge, policy, wbc>>
vars == <<driverVars, relayVars>>

(***************************************************************************)
(* Helpers over the mirrors                                                *)
(***************************************************************************)
Motors == 0..(TOTAL_MOTORS - 1)

\* the three arrays of the state mirror as one value
Mirror == [q |-> joint_q, dq |-> joint_dq, tau |-> joint_tau]

ZeroMirror ==
    [q |-> NpZeros(TOTAL_MOTORS), dq |-> NpZeros(TOTAL_MOTORS), tau |-> NpZeros(TOTAL_MOTORS)]

\* both hands start at slot 0
StartIdxMut(is_left) == 0

\* start_idx = 6 if is_left else 0
StartIdx(is_left) == IF is_left THEN 6 ELSE 0

\* a[start_idx:end_idx] read out, end_idx = start_idx + 6
Slice(a, is_left) == [j \in 0..5 |-> a[StartIdx(is_left) + j]]

\* the (q, dq, tau) triple of one hand read out of a mirror value
HandSlice(m, is_left) ==
    [q |-> Slice(m.q, is_left), dq |-> Slice(m.dq, is_left), tau |-> Slice(m.tau, is_left)]

ZeroTriple == [q |-> NpZeros(6), dq |-> NpZeros(6), tau |-> NpZeros(6)]

\* the caller holds nothing yet
NoView == [has |-> FALSE, is_left |-> FALSE, gen |-> 0, frozen |-> ZeroTriple]

\* set_hand_cmd was not called yet
NoCall == [called |-> FALSE, is_left |-> FALSE, q_cmd|-> <<>>]

\* unitree_go_msg_dds__MotorCmd_(): a default-constructed command entry
DefaultCmd == [mode |-> 0, q |-> 0, kp |-> 0, kd |-> 0]

\* a caller can use the driver once some InspireHandDriver() call has returned
HasInstance == \E t \in Ctors : ctorPc[t] = "done"

DriverInit ==
    /\ ctorPc = [t \in Ctors |-> "start"]
    /\ ctorRet = [t \in Ctors |-> 0]
    /\ instance = 0
    /\ initialized = FALSE
    /\ factoryCalls = 0
    /\ factoryFailed = FALSE
    /\ pubCount = 0
    /\ subCount = 0
    /\ recvStarted = 0
    /\ sendStarted = 0
    /\ joint_q = Unset
    /\ joint_dq = Unset
    /\ joint_tau = Unset
    /\ stateGen = 0
    /\ committed = ZeroMirror
    /\ cmd_q = Unset
    /\ running = FALSE
    /\ recvPc = [t \in Ctors |-> "none"]
    /\ recvMsg = [t \in Ctors |-> ReadNone]
    /\ recvI = [t \in Ctors |-> 0]
    /\ sendPc = [t \in Ctors |-> "none"]
    /\ sendMsg = [t \in Ctors |-> Unset]
    /\ wire = Unset
    /\ nSent = 0
    /\ nSet = [h \in BOOLEAN |-> 0]
    /\ nGet = 0
    /\ nRecv = 0
    /\ nSend = 0
    /\ held = NoView
    /\ lastSet = NoCall

(***************************************************************************)
(* InspireHandDriver(): __new__ then __init__, per constructing thread     *)
(***************************************************************************)
\* __new__: under cls._lock, create the instance if there is none; return it
New(t) ==
    /\ ctorPc[t] = "start"
    /\ instance' = (IF instance = 0 THEN 1 ELSE instance)
    /\ initialized' = (IF instance = 0 THEN FALSE ELSE initialized)
    /\ ctorRet' = [ctorRet EXCEPT ![t] = instance']
    /\ ctorPc' = [ctorPc EXCEPT ![t] = "init"]
    /\ UNCHANGED <<factoryCalls, pubCount, subCount, recvStarted, sendStarted>>
    /\ UNCHANGED <<stateVars, cmd_q, running, recvVars, sendVars, callVars>>
    /\ UNCHANGED factoryFailed
    /\ UNCHANGED relayVars

\* a construction that skips a set _initialized flag
AlreadyInitializedMut == FALSE

\* __init__: if self._initialized
AlreadyInitialized == initialized

\* __init__: if self._initialized: return
InitCheck(t) ==
    /\ ctorPc[t] = "init"
    /\ ctorPc' = [ctorPc EXCEPT ![t] = IF AlreadyInitialized THEN "done" ELSE "factory"]
    /\ UNCHANGED <<ctorRet, instance, initialized, factoryCalls, pubCount, subCount,
                   recvStarted, sendStarted>>
    /\ UNCHANGED <<stateVars, cmd_q, running, recvVars, sendVars, callVars>>
    /\ UNCHANGED factoryFailed
    /\ UNCHANGED relayVars

\* the exception of ChannelFactoryInitialize leaves __init__
AfterFactoryMut(ok) == IF ok THEN "alloc_state" ELSE "failed"

\* __init__: try: ChannelFactoryInitialize(...) except Exception: print a
\* warning; both outcomes continue at the allocation of the mirrors
AfterFactory(ok) == "alloc_state"

\* __init__: ChannelFactoryInitialize(0, interface) returns (ok) or raises
FactoryInit(t, ok) ==
    /\ ctorPc[t] = "factory"
    /\ factoryCalls' = factoryCalls + 1
    /\ factoryFailed' = (factoryFailed \/ ~ok)
    /\ ctorPc' = [ctorPc EXCEPT ![t] = AfterFactory(ok)]
    /\ UNCHANGED <<ctorRet, instance, initialized, pubCount, subCount, recvStarted, sendStarted>>
    /\ UNCHANGED <<stateVars, cmd_q, running, recvVars, sendVars, callVars>>
    /\ UNCHANGED relayVars

\* what a view given out by get_hand_state shows once the mirror's arrays were
\* replaced: the old arrays, which nothing writes any more
Detach(v) ==
    IF v.has /\ v.gen = stateGen
    THEN [v EXCEPT !.frozen = HandSlice(Mirror, v.is_left)]
    ELSE v

\* __init__: self.joint_q = np.zeros(12), joint_dq, joint_tau
AllocState(t) ==
    /\ ctorPc[t] = "alloc_state"
    /\ joint_q' = NpZeros(TOTAL_MOTORS)
    /\ joint_dq' = NpZeros(TOTAL_MOTORS)
    /\ joint_tau' = NpZeros(TOTAL_MOTORS)
    /\ stateGen' = stateGen + 1
    /\ committed' = ZeroMirror
    /\ held' = Detach(held)
    /\ ctorPc' = [ctorPc EXCEPT ![t] = "alloc_cmd"]
    /\ UNCHANGED <<ctorRet, instance, initialized, factoryCalls, pubCount, subCount,
                   recvStarted, sendStarted>>
    /\ UNCHANGED <<cmd_q, running, recvVars, sendVars, nSet, nGet, lastSet>>
    /\ UNCHANGED factoryFailed
    /\ UNCHANGED relayVars

\* a command mirror that starts closed
InitialCmdMut == NpZeros(TOTAL_MOTORS)

\* np.ones(TOTAL_MOTORS): default to open/safe position
InitialCmd == NpOnes(TOTAL_MOTORS)

\* __init__: self.cmd_q = np.ones(12); self.cmd_lock = threading.Lock()
AllocCmd(t) ==
    /\ ctorPc[t] = "alloc_cmd"
    /\ cmd_q' = InitialCmd
    /\ ctorPc' = [ctorPc EXCEPT ![t] = "pubsub"]
    /\ UNCHANGED <<ctorRet, instance, initialized, factoryCalls, pubCount, subCount,
                   recvStarted, sendStarted>>
    /\ UNCHANGED <<stateVars, running, recvVars, sendVars, callVars>>
    /\ UNCHANGED factoryFailed
    /\ UNCHANGED relayVars

\* __init__: self.pub = ChannelPublisher(...); Init(); self.sub = ChannelSubscriber(...); Init()
CreatePubSub(t) ==
    /\ ctorPc[t] = "pubsub"
    /\ pubCount' = pubCount + 1
    /\ subCount' = subCount + 1
    /\ ctorPc' = [ctorPc EXCEPT ![t] = "threads"]
    /\ UNCHANGED <<ctorRet, instance, initialized, factoryCalls, recvStarted, sendStarted>>
    /\ UNCHANGED <<stateVars, cmd_q, running, recvVars, sendVars, callVars>>
    /\ UNCHANGED factoryFailed
    /\ UNCHANGED relayVars

\* __init__: self.running = True; start the _recv_loop and _send_loop threads.
\* _send_loop begins by building its msg of TOTAL_MOTORS default entries.
StartThreads(t) ==
    /\ ctorPc[t] = "threads"
    /\ running' = TRUE
    /\ recvStarted' = recvStarted + 1
    /\ sendStarted' = sendStarted + 1
    /\ recvPc' = [recvPc EXCEPT ![t] = "head"]
    /\ sendPc' = [sendPc EXCEPT ![t] = "build"]
    /\ sendMsg' = [sendMsg EXCEPT ![t] = [i \in Motors |-> DefaultCmd]]
    /\ ctorPc' = [ctorPc EXCEPT ![t] = "mark"]
    /\ UNCHANGED <<ctorRet, instance, initialized, factoryCalls, pubCount, subCount>>
    /\ UNCHANGED <<stateVars, cmd_q, recvMsg, recvI, nRecv, wire, nSent, nSend, callVars>>
    /\ UNCHANGED factoryFailed
    /\ UNCHANGED relayVars

\* __init__: self._initialized = True
MarkInitialized(t) ==
    /\ ctorPc[t] = "mark"
    /\ initialized' = TRUE
    /\ ctorPc' = [ctorPc EXCEPT ![t] = "done"]
    /\ UNCHANGED <<ctorRet, instance, factoryCalls, pubCount, subCount, recvStarted, sendStarted>>
    /\ UNCHANGED <<stateVars, cmd_q, running, recvVars, sendVars, callVars>>
    /\ UNCHANGED factoryFailed
    /\ UNCHANGED relayVars

(***************************************************************************)
(* _recv_loop: the ingestion task.  The state mirror has no lock, so each  *)
(* assignment of the loop body is a step of its own.                       *)
(***************************************************************************)
\* a count clamped to one hand instead of the whole group
CountMut(states) == Min(PyLen(states), NUM_MOTORS_PER_HAND)

\* count = min(len(msg.states), TOTAL_MOTORS)
Count(states) == Min(PyLen(states), TOTAL_MOTORS)

\* while self.running: msg = self.sub.Read(); if msg is not None: count = ...; for i in range(count)
RecvRead(t, out) ==
    /\ recvPc[t] \in {"head"}
    /\ running
    /\ nRecv < MaxRecvIters
    /\ nRecv' = nRecv + 1
    /\ IF out.kind = "raise"
       THEN \* nothing catches the exception: the thread ends
            /\ recvPc' = [recvPc EXCEPT ![t] = "dead"]
            /\ UNCHANGED <<recvMsg, recvI, committed>>
       ELSE /\ recvMsg' = [recvMsg EXCEPT ![t] = out]
            /\ recvI' = [recvI EXCEPT ![t] = 0]
            /\ IF out.kind = "msg" /\ Count(out.states) > 0
               THEN /\ recvPc' = [recvPc EXCEPT ![t] = "q"]
                    /\ UNCHANGED committed
               ELSE \* no frame, or range(0): time.sleep(0.002) and loop
                    /\ recvPc' = [recvPc EXCEPT ![t] = "head"]
                    /\ committed' = Mirror
    /\ UNCHANGED <<joint_q, joint_dq, joint_tau, stateGen>>
    /\ UNCHANGED <<ctorVars, cmd_q, running, sendVars, callVars>>
    /\ UNCHANGED relayVars

\* self.joint_q[i] = msg.states[i].q
RecvWriteQ(t) ==
    /\ recvPc[t] = "q"
    /\ recvI[t] \in DOMAIN joint_q
    /\ joint_q' = [joint_q EXCEPT ![recvI[t]] = recvMsg[t].states[recvI[t]].q]
    /\ recvPc' = [recvPc EXCEPT ![t] = "dq"]
    /\ UNCHANGED <<joint_dq, joint_tau, stateGen, committed, recvMsg, recvI, nRecv>>
    /\ UNCHANGED <<ctorVars, cmd_q, running, sendVars, callVars>>
    /\ UNCHANGED relayVars

\* self.joint_dq[i] = msg.states[i].dq
RecvWriteDq(t) ==
    /\ recvPc[t] = "dq"
    /\ recvI[t] \in DOMAIN joint_dq
    /\ joint_dq' = [joint_dq EXCEPT ![recvI[t]] = recvMsg[t].states[recvI[t]].dq]
    /\ recvPc' = [recvPc EXCEPT ![t] = "tau"]
    /\ UNCHANGED <<joint_q, joint_tau, stateGen, committed, recvMsg, recvI, nRecv>>
    /\ UNCHANGED <<ctorVars, cmd_q, running, sendVars, callVars>>
    /\ UNCHANGED relayVars

\* self.joint_tau[i] = msg.states[i].tau_est; next i, or time.sleep(0.002) and loop
RecvWriteTau(t) ==
    /\ recvPc[t] = "tau"
    /\ recvI[t] \in DOMAIN joint_tau
    /\ joint_tau' = [joint_tau EXCEPT ![recvI[t]] = recvMsg[t].states[recvI[t]].tau_est]
    /\ recvI' = [recvI EXCEPT ![t] = recvI[t] + 1]
    /\ IF recvI[t] + 1 < Count(recvMsg[t].states)
       THEN /\ recvPc' = [recvPc EXCEPT ![t] = "q"]
            /\ UNCHANGED committed
       ELSE /\ recvPc' = [recvPc EXCEPT ![t] = "head"]
            /\ committed' = [q |-> joint_q, dq |-> joint_dq, tau |-> joint_tau']
    /\ UNCHANGED <<joint_q, joint_dq, stateGen, recvMsg, nRecv>>
    /\ UNCHANGED <<ctorVars, cmd_q, running, sendVars, callVars>>
    /\ UNCHANGED relayVars

(***************************************************************************)
(* _send_loop: the emission task                                           *)
(***************************************************************************)
\* a frame that fills one hand only
SendRangeMut == 0..(NUM_MOTORS_PER_HAND - 1)

\* for i in range(TOTAL_MOTORS)
SendRange == 0..(TOTAL_MOTORS - 1)

\* a frame that carries the default position instead of the command mirror
BuildCmdMut(i) == [mode |-> 1, q |-> 1, kp |-> 0, kd |-> 0]

\* msg.cmds[i].mode = 1; .q = self.cmd_q[i]; .kp = 0.0; .kd = 0.0
BuildCmd(i) == [mode |-> 1, q |-> cmd_q[i], kp |-> 0, kd |-> 0]

\* while self.running: with self.cmd_lock: fill msg.cmds from cmd_q
SendBuild(t) ==
    /\ sendPc[t] = "build"
    /\ running
    /\ nSend < MaxSendIters
    /\ nSend' = nSend + 1
    /\ sendMsg' = [sendMsg EXCEPT ![t] =
                     [i \in Motors |-> IF i \in SendRange THEN BuildCmd(i) ELSE sendMsg[t][i]]]
    /\ sendPc' = [sendPc EXCEPT ![t] = "write"]
    /\ UNCHANGED <<wire, nSent>>
    /\ UNCHANGED <<ctorVars, stateVars, cmd_q, running, recvVars, callVars>>
    /\ UNCHANGED relayVars

\* self.pub.Write(msg); time.sleep(0.01).  A Write that raises ends the thread:
\* nothing catches the exception.
SendWrite(t, ok) ==
    /\ sendPc[t] = "write"
    /\ IF ok
       THEN /\ wire' = sendMsg[t]
            /\ nSent' = nSent + 1
            /\ sendPc' = [sendPc EXCEPT ![t] = "build"]
       ELSE /\ sendPc' = [sendPc EXCEPT ![t] = "dead"]
            /\ UNCHANGED <<wire, nSent>>
    /\ UNCHANGED <<sendMsg, nSend>>
    /\ UNCHANGED <<ctorVars, stateVars, cmd_q, running, recvVars, callVars>>
    /\ UNCHANGED relayVars

(***************************************************************************)
(* The accessors                                                           *)
(***************************************************************************)
\* the values a caller reads through the triple v it holds
ViewValues(v) == IF v.gen = stateGen THEN HandSlice(Mirror, v.is_left) ELSE v.frozen

\* get_hand_state: three basic slices of the mirror arrays, taken without a
\* lock.  A basic slice of a numpy array is a view of the array, so the
\* caller holds the arrays themselves (gen), not their values.
GetHandState(is_left) ==
    /\ HasInstance
    /\ nGet < MaxGetCalls
    /\ nGet' = nGet + 1
    /\ held' = [has |-> TRUE, is_left |-> is_left, gen |-> stateGen, frozen |-> ZeroTriple]
    /\ UNCHANGED <<nSet, lastSet>>
    /\ UNCHANGED <<ctorVars, stateVars, cmd_q, running, recvVars, sendVars>>
    /\ UNCHANGED relayVars

\* a limit that takes the whole of q_cmd
LimitMut(q_cmd) == PyLen(q_cmd)

\* limit = min(len(q_cmd), 6)
Limit(q_cmd) == Min(PyLen(q_cmd), 6)

\* set_hand_cmd: with self.cmd_lock: for i in range(limit): cmd_q[start_idx + i] = q_cmd[i]
SetHandCmd(is_left, q_cmd) ==
    /\ HasInstance
    /\ nSet[TRUE] + nSet[FALSE] < MaxSetCalls
    /\ nSet' = [nSet EXCEPT ![is_left] = nSet[is_left] + 1]
    /\ \A i \in 0..(Limit(q_cmd) - 1) : StartIdx(is_left) + i \in DOMAIN cmd_q
    /\ cmd_q' = [j \in Motors |->
                   IF j - StartIdx(is_left) \in 0..(Limit(q_cmd) - 1)
                   THEN q_cmd[j - StartIdx(is_left)]
                   ELSE cmd_q[j]]
    /\ lastSet' = [called |-> TRUE, is_left |-> is_left, q_cmd |-> q_cmd]
    /\ UNCHANGED <<nGet, held>>
    /\ UNCHANGED <<ctorVars, stateVars, running, recvVars, sendVars>>
    /\ UNCHANGED relayVars

(***************************************************************************)
(* The test harness of the accessor round trip: the command topic looped   *)
(* back into the state topic.                                              *)
(***************************************************************************)
\* the state frame a looped-back command frame arrives as
Loopback(cmds) == [i \in DOMAIN cmds |-> [q |-> cmds[i].q, dq |-> 0, tau_est |-> 0]]

(***************************************************************************)
(* Tracking data.  Lengths are in millimetres; a position is <<x, y, z>>   *)
(* in the device frame.  A quaternion is ZeroQuat (all four components 0)  *)
(* or a number 0..3 of quarter turns about the device's vertical axis.     *)
(* A value that can be None is a record with a field some.                 *)
(***************************************************************************)
ZeroQuat == -1

\* a pose [x, y, z, qx, qy, qz, qw]
Pose(p, q) == [some |-> TRUE, pos |-> p, quat |-> q]

\* None in place of a pose
NoPose == [some |-> FALSE, pos |-> <<0, 0, 0>>, quat |-> 0]

\* the digit a joint belongs to: 1..4 thumb, 5..9 index, 10..14 middle,
\* 15..19 ring, 20..24 little finger (joint 0 is the wrist)
Digit(i) == i \div 5

\* a list of n joints: the wrist at w, the joints of digit d moved ext[d + 1]
\* along x from the wrist, every joint with quaternion q
Hand(n, w, ext, q) ==
    [some |-> TRUE,
     joints |-> [i \in 0..(n - 1) |->
                    [pos |-> IF i = 0 \/ Digit(i) > 4
                             THEN w
                             ELSE <<w[1] + ext[Digit(i) + 1], w[2], w[3]>>,
                     quat |-> q]]]

\* None in place of a list of joints
NoJoints == [some |-> FALSE, joints |-> <<>>]

\* the headset poses, the joint lists of the left and of the right hand, and
\* the tracking-state flags the device can report
HeadsetPoses == {NoPose, Pose(<<100, 200, 300>>, 1)}
LeftJoints == {NoJoints,
               Hand(24, <<10, 20, 30>>, <<95, 105, 105, 105, 105>>, 0),
               Hand(25, <<10, 20, 30>>, <<70, 80, 100, 60, 40>>, ZeroQuat)}
RightJoints == {NoJoints, Hand(26, <<-10, 20, 30>>, <<0, 0, 0, 0, 0>>, 2)}

\* what the device holds when the server captures
Readings ==
    [headset_pose : HeadsetPoses,
     left_hand_tracking_state : BOOLEAN, right_hand_tracking_state : BOOLEAN,
     left_hand_joints : LeftJoints, right_hand_joints : RightJoints]

(***************************************************************************)
(* PicoHandTrackingServer: activate() (setup, then the cleanup block) and  *)
(* run() (the serve loop), as the steps of the server process              *)
(***************************************************************************)
\* __init__, before activate()
ServerInit ==
    server = [pc |-> "xr",
              xr_client |-> "none", context |-> "none", socket |-> "none",
              pico_service_pid |-> 0, kills |-> 0,
              pending |-> FALSE,          \* the REP socket holds a request to answer
              data |-> Unset,             \* data of the current iteration
              failed |-> {},              \* steps of the current iteration that raised
              replies |-> 0,              \* replies sent in the current iteration
              requests |-> 0,             \* requests received so far
              reply |-> Unset,            \* the last reply sent
              bad_sends |-> 0,            \* sends attempted with no request pending
              run_exit |-> "none",        \* how run() ended
              error |-> "none",           \* the exception leaving the process
              original |-> "none",        \* the exception the cleanup block was entered with
              exc |-> "none",             \* the step whose exception the handler caught
              clock |-> 0]                \* time.time()

\* the finally block of activate() is entered with exception err ("none":
\* the with block ended normally)
Finally(err) == [server EXCEPT !.pc = "fin_socket", !.error = err, !.original = err]

\* activate: self.xr_client = XrClient()
ActivateXr(ok) ==
    /\ server.pc = "xr"
    /\ server' = IF ok THEN [server EXCEPT !.pc = "service", !.xr_client = "open"]
                 ELSE Finally("setup")
    /\ UNCHANGED <<driverVars, client, solver, loop, bridge, policy, wbc>>

\* activate: self._run_pico_service(); Popen starts the vendor service
ActivateService(ok) ==
    /\ server.pc = "service"
    /\ server' = IF ok THEN [server EXCEPT !.pc = "sleep", !.pico_service_pid = 1]
                 ELSE Finally("setup")
    /\ UNCHANGED <<driverVars, client, solver, loop, bridge, policy, wbc>>

\* activate: time.sleep(2), which Ctrl-C can interrupt
ActivateSleep(ok) ==
    /\ server.pc = "sleep"
    /\ server' = IF ok THEN [server EXCEPT !.pc = "context"]
                 ELSE Finally("KeyboardInterrupt")
    /\ UNCHANGED <<driverVars, client, solver, loop, bridge, policy, wbc>>

\* activate: self.context = zmq.Context()
ActivateContext(ok) ==
    /\ server.pc = "context"
    /\ server' = IF ok THEN [server EXCEPT !.pc = "socket", !.context = "open"]
                 ELSE Finally("setup")
    /\ UNCHANGED <<driverVars, client, solver, loop, bridge, policy, wbc>>

\* activate: self.socket = self.context.socket(zmq.REP)
ActivateSocket(ok) ==
    /\ server.pc = "socket"
    /\ server' = IF ok THEN [server EXCEPT !.pc = "bind", !.socket = "open"]
                 ELSE Finally("setup")
    /\ UNCHANGED <<driverVars, client, solver, loop, bridge, policy, wbc>>

\* activate: self.socket.bind(...), then yield: main calls run()
ActivateBind(ok) ==
    /\ server.pc = "bind"
    /\ server' = IF ok THEN [server EXCEPT !.pc = "recv"]
                 ELSE Finally("setup")
    /\ UNCHANGED <<driverVars, client, solver, loop, bridge, policy, wbc>>

\* _get_hand_tracking_data: the returned dict.  The joints are fetched inside
\* try/except, the left hand first: when a fetch raises (fail is the hand
\* whose fetch raised) that hand and the ones after it stay None
Snapshot(r, fail, now) ==
    [headset_pose |-> r.headset_pose,
     left_hand_tracking_state |-> r.left_hand_tracking_state,
     right_hand_tracking_state |-> r.right_hand_tracking_state,
     left_hand_joints |-> IF fail = "left" THEN NoJoints ELSE r.left_hand_joints,
     right_hand_joints |-> IF fail \in {"left", "right"} THEN NoJoints
                           ELSE r.right_hand_joints,
     timestamp |-> now]

\* an error payload without the description
ErrorDataMut(e, now) == [error |-> "", timestamp |-> now]

\* run: error_data = {"error": str(e), "timestamp": time.time()}
ErrorData(e, now) == [error |-> e, timestamp |-> now]

\* run: _ = self.socket.recv(); a request arrives, recv raises, or Ctrl-C
\* (except KeyboardInterrupt: break, which ends the with block normally)
RunRecv(out) ==
    /\ server.pc = "recv"
    /\ out = "request" => server.requests < MaxRequests
    /\ LET s == [server EXCEPT !.data = Unset, !.failed = {}, !.replies = 0]
       IN  server' =
              CASE out = "request" ->
                      [s EXCEPT !.pc = "capture", !.pending = TRUE,
                                !.requests = server.requests + 1]
                [] out = "raise" ->
                      [s EXCEPT !.pc = "handler", !.failed = {"recv"}, !.exc = "recv"]
                [] out = "interrupt" ->
                      [s EXCEPT !.pc = "fin_socket", !.run_exit = "interrupt"]
    /\ UNCHANGED <<driverVars, client, solver, loop, bridge, policy, wbc>>

\* run: data = self._get_hand_tracking_data(); the headset pose and the
\* tracking states are fetched outside the try of _get_hand_tracking_data
RunCapture(r, fail) ==
    /\ server.pc = "capture"
    /\ server' =
          IF fail = "pose"
          THEN [server EXCEPT !.pc = "handler", !.failed = @ \cup {"capture"},
                              !.exc = "capture"]
          ELSE [server EXCEPT !.pc = "dumps", !.clock = server.clock + 1,
                              !.data = Snapshot(r, fail, server.clock + 1)]
    /\ UNCHANGED <<driverVars, client, solver, loop, bridge, policy, wbc>>

\* run: serialized_data = pickle.dumps(data)
RunDumps(ok) ==
    /\ server.pc = "dumps"
    /\ server' = IF ok THEN [server EXCEPT !.pc = "send"]
                 ELSE [server EXCEPT !.pc = "handler", !.failed = @ \cup {"dumps"},
                                     !.exc = "dumps"]
    /\ UNCHANGED <<driverVars, client, solver, loop, bridge, policy, wbc>>

\* run: self.socket.send(serialized_data)
RunSend(ok) ==
    /\ server.pc = "send"
    /\ server' = IF ok
                 THEN [server EXCEPT !.pc = "recv", !.reply = server.data,
                                     !.replies = @ + 1, !.pending = FALSE]
                 ELSE [server EXCEPT !.pc = "handler", !.failed = @ \cup {"send"},
                                     !.exc = "send"]
    /\ UNCHANGED <<driverVars, client, solver, loop, bridge, policy, wbc>>

\* run: except Exception as e: self.socket.send(pickle.dumps(error_data)).
\* A REP socket accepts a send only while it holds a request; an exception
\* of this send is raised inside the handler and leaves run()
RunHandler(ok) ==
    /\ server.pc = "handler"
    /\ server' =
          IF ~server.pending
          THEN [Finally("serve") EXCEPT !.bad_sends = @ + 1, !.run_exit = "error",
                                        !.clock = server.clock + 1]
          ELSE IF ok
          THEN [server EXCEPT !.pc = "recv", !.pending = FALSE, !.replies = @ + 1,
                              !.clock = server.clock + 1,
                              !.reply = ErrorData(server.exc, server.clock + 1)]
          ELSE [Finally("serve") EXCEPT !.failed = @ \cup {"error_reply"},
                                        !.run_exit = "error",
                                        !.clock = server.clock + 1]
    /\ UNCHANGED <<driverVars, client, solver, loop, bridge, policy, wbc>>

\* activate, finally: if self.socket: self.socket.close().  An exception of
\* a cleanup step leaves the finally block at that step
CleanupSocket(ok) ==
    /\ server.pc = "fin_socket"
    /\ server' = IF server.socket = "none" THEN [server EXCEPT !.pc = "fin_context"]
                 ELSE IF ok THEN [server EXCEPT !.pc = "fin_context", !.socket = "closed"]
                 ELSE [server EXCEPT !.pc = "exited", !.error = "cleanup"]
    /\ UNCHANGED <<driverVars, client, solver, loop, bridge, policy, wbc>>

\* activate, finally: if self.context: self.context.term()
CleanupContext(ok) ==
    /\ server.pc = "fin_context"
    /\ server' = IF server.context = "none" THEN [server EXCEPT !.pc = "fin_xr"]
                 ELSE IF ok THEN [server EXCEPT !.pc = "fin_xr", !.context = "closed"]
                 ELSE [server EXCEPT !.pc = "exited", !.error = "cleanup"]
    /\ UNCHANGED <<driverVars, client, solver, loop, bridge, policy, wbc>>

\* activate, finally: if self.xr_client: self.xr_client.close()
CleanupXr(ok) ==
    /\ server.pc = "fin_xr"
    /\ server' = IF server.xr_client = "none" THEN [server EXCEPT !.pc = "fin_service"]
                 ELSE IF ok THEN [server EXCEPT !.pc = "fin_service", !.xr_client = "closed"]
                 ELSE [server EXCEPT !.pc = "exited", !.error = "cleanup"]
    /\ UNCHANGED <<driverVars, client, solver, loop, bridge, policy, wbc>>

\* activate, finally: self._stop_pico_service(): if self.pico_service_pid:
\* Popen(["kill", "-9", pid])
CleanupService ==
    /\ server.pc = "fin_service"
    /\ server' = [server EXCEPT !.pc = "exited",
                                !.kills = IF server.pico_service_pid # 0 THEN @ + 1 ELSE @]
    /\ UNCHANGED <<driverVars, client, solver, loop, bridge, policy, wbc>>

\* one step of the server process
Serve ==
    \/ \E ok \in BOOLEAN : ActivateXr(ok)
    \/ \E ok \in BOOLEAN : ActivateService(ok)
    \/ \E ok \in BOOLEAN : ActivateSleep(ok)
    \/ \E ok \in BOOLEAN : ActivateContext(ok)
    \/ \E ok \in BOOLEAN : ActivateSocket(ok)
    \/ \E ok \in BOOLEAN : ActivateBind(ok)
    \/ \E out \in {"request", "raise", "interrupt"} : RunRecv(out)
    \/ \E r \in Readings, fail \in {"none", "pose", "left", "right"} : RunCapture(r, fail)
    \/ \E ok \in BOOLEAN : RunDumps(ok)
    \/ \E ok \in BOOLEAN : RunSend(ok)
    \/ \E ok \in BOOLEAN : RunHandler(ok)
    \/ \E ok \in BOOLEAN : CleanupSocket(ok)
    \/ \E ok \in BOOLEAN : CleanupContext(ok)
    \/ \E ok \in BOOLEAN : CleanupXr(ok)
    \/ CleanupService

(***************************************************************************)
(* PicoHandTrackingClientStreamer.  A fingertip tensor is a function over  *)
(* 0..24; each transform is given by rot (its 3x3 block: NoRot when it is  *)
(* all zero, otherwise the quarter turns about the world's vertical axis), *)
(* pos (its translation column) and w (its bottom-right entry).            *)
(***************************************************************************)
NoRot == -1

\* np.zeros([25, 4, 4])
ZeroTensor == [i \in 0..24 |-> [rot |-> NoRot, pos |-> <<0, 0, 0>>, w |-> 0]]

\* R_HEADSET_TO_WORLD @ p
ToWorld(p) == <<-p[3], -p[1], p[2]>>

\* R.from_quat(q) after the all-zero quaternion was replaced by [0, 0, 0, 1];
\* R_HEADSET_TO_WORLD @ rot @ R_HEADSET_TO_WORLD.T turns a rotation about the
\* device's vertical axis into the same rotation about the world's z axis
Turns(q) == IF q = ZeroQuat THEN 0 ELSE q

\* R.from_euler("z", -yaw).as_matrix() @ v, yaw being k quarter turns
InvYaw(k, v) ==
    CASE k = 0 -> v
      [] k = 1 -> <<v[2], -v[1], v[3]>>
      [] k = 2 -> <<-v[1], -v[2], v[3]>>
      [] k = 3 -> <<-v[2], v[1], v[3]>>

\* _generate_finger_data: len(hand_joints) < 25
MinJoints == 25

\* _generate_finger_data: raised is TRUE when the function raises (for a
\* headset pose of None, at headset_pose[:3])
GenerateFingerData(hand_joints, headset_pose) ==
    IF ~hand_joints.some \/ PyLen(hand_joints.joints) < MinJoints
    THEN [raised |-> FALSE, tensor |-> ZeroTensor]
    ELSE IF ~headset_pose.some
    THEN [raised |-> TRUE, tensor |-> Unset]
    ELSE LET k == Turns(headset_pose.quat)
             h_pos == ToWorld(headset_pose.pos)
             num_joints == Min(PyLen(hand_joints.joints), 25)
             Final(j) ==
                 LET j_pos == ToWorld(j.pos)
                     pos_delta == <<j_pos[1] - h_pos[1], j_pos[2] - h_pos[2],
                                    j_pos[3] - h_pos[3]>>
                 IN  [rot |-> (Turns(j.quat) - k) % 4, pos |-> InvYaw(k, pos_delta), w |-> 1]
         IN  [raised |-> FALSE,
              tensor |-> [i \in 0..24 |-> IF i < num_joints
                                          THEN Final(hand_joints.joints[i])
                                          ELSE ZeroTensor[i]]]

\* self.socket is None
NoSocket == [id |-> 0, connected |-> FALSE, rcvtimeo |-> -1, awaiting |-> FALSE]

\* _request_data returned None
NoData == [some |-> FALSE]

\* __init__
ClientInit ==
    client = [context |-> 0,          \* self.context (0: None, else the context's identity)
              socket |-> NoSocket,    \* self.socket
              contexts |-> 0,         \* zmq.Context() objects created
              sockets |-> 0,          \* sockets created
              closed |-> {},          \* sockets closed
              termed |-> {},          \* contexts terminated
              starts |-> 0, stops |-> 0, gets |-> 0,    \* calls made
              sent |-> 0,             \* requests sent
              outcome |-> "none",     \* what the exchange of the last get() met
              data |-> NoData,        \* server_data of the last get()
              left |-> Unset,         \* left_fingers of the last get()
              right |-> Unset,        \* right_fingers of the last get()
              call |-> "none",        \* the last call made
              raised |-> "none"]      \* the exception the last call raised

\* the client keeps its socket across calls
StartedMut == FALSE

\* start_streaming: if self.socket is not None
Started == client.socket.id # 0

\* start_streaming: zmq.Context(), socket(zmq.REQ), connect, RCVTIMEO 2000
StartCall ==
    client' =
          IF Started
          THEN [client EXCEPT !.starts = @ + 1, !.call = "start", !.raised = "none"]
          ELSE [client EXCEPT !.starts = @ + 1, !.call = "start", !.raised = "none",
                              !.contexts = @ + 1, !.context = client.contexts + 1,
                              !.sockets = @ + 1,
                              !.socket = [id |-> client.sockets + 1, connected |-> TRUE,
                                          rcvtimeo |-> 2000, awaiting |-> FALSE]]

\* one start_streaming call of the client's user
StartStreaming ==
    /\ client.starts < MaxStarts
    /\ StartCall
    /\ UNCHANGED <<driverVars, server, solver, loop, bridge, policy, wbc>>

\* the closed socket stays in self.socket
AfterCloseMut(s) == s

\* stop_streaming: self.socket = None
AfterClose(s) == NoSocket

\* stop_streaming: if self.socket: close, None; if self.context: term, None
StopStreaming ==
    /\ client.stops < MaxStops
    /\ client' =
          [client EXCEPT !.stops = @ + 1, !.call = "stop", !.raised = "none",
                         !.closed = IF client.socket.id # 0
                                    THEN @ \cup {client.socket.id} ELSE @,
                         !.socket = IF client.socket.id # 0 THEN AfterClose(@) ELSE @,
                         !.termed = IF client.context # 0
                                    THEN @ \cup {client.context} ELSE @,
                         !.context = 0]
    /\ UNCHANGED <<driverVars, server, solver, loop, bridge, policy, wbc>>

\* the replies the server sends: an error payload or a snapshot
Replies ==
    {ErrorData(e, 1) : e \in {"capture", "dumps", "send"}}
        \cup {Snapshot(r, fail, 1) : r \in Readings, fail \in {"none", "left", "right"}}

\* what a request/reply exchange can meet: send raises, recv times out
\* (zmq.Again), recv raises, or a reply arrives
Exchanges ==
    {[kind |-> k, data |-> NoData] : k \in {"send_error", "timeout", "recv_error"}}
        \cup {[kind |-> "reply", data |-> [some |-> TRUE, val |-> d]] : d \in Replies}

\* _request_data: self.socket.send(b"request_data").  A REQ socket that still
\* waits for the reply to its last request refuses the send
Exchange(x) ==
    IF client.socket.awaiting THEN [kind |-> "send_error", data |-> NoData] ELSE x

\* _request_data: the return value; None for an error payload and in both
\* except branches
ServerData(e) ==
    IF e.kind = "reply" /\ "error" \notin DOMAIN e.data.val THEN e.data ELSE NoData

\* a hand whose tracking-validity flag is false counts as having no joints
HandJointsMut(val, is_left) ==
    IF is_left
    THEN IF val.left_hand_tracking_state THEN val.left_hand_joints ELSE NoJoints
    ELSE IF val.right_hand_tracking_state THEN val.right_hand_joints ELSE NoJoints

\* get: server_data.get("left_hand_joints"), server_data.get("right_hand_joints")
HandJoints(val, is_left) ==
    IF is_left THEN val.left_hand_joints ELSE val.right_hand_joints

\* a get() that returns the empty result without a request whatever the
\* client holds
GetCallMut(x) ==
    client' = [client EXCEPT !.gets = @ + 1, !.call = "get", !.raised = "none",
                             !.outcome = "not_started", !.data = NoData,
                             !.left = ZeroTensor, !.right = ZeroTensor]

\* get (with _request_data and _generate_finger_data): one call
GetCall(x) ==
    IF client.socket.id = 0
    THEN client' = [client EXCEPT !.gets = @ + 1, !.call = "get",
                                  !.raised = "RuntimeError", !.outcome = "not_started",
                                  !.data = NoData, !.left = Unset, !.right = Unset]
    ELSE LET e == Exchange(x)
             d == ServerData(e)
             l == GenerateFingerData(HandJoints(d.val, TRUE), d.val.headset_pose)
             r == GenerateFingerData(HandJoints(d.val, FALSE), d.val.headset_pose)
         IN  client' =
                [client EXCEPT
                    !.gets = @ + 1, !.call = "get",
                    !.sent = IF e.kind = "send_error" THEN @ ELSE @ + 1,
                    !.socket.awaiting = IF e.kind = "send_error" THEN @
                                        ELSE e.kind \in {"timeout", "recv_error"},
                    !.outcome = IF e.kind = "reply" /\ ~d.some THEN "error_reply"
                                ELSE e.kind,
                    !.data = d,
                    !.left = IF ~d.some THEN ZeroTensor
                             ELSE IF l.raised THEN Unset ELSE l.tensor,
                    !.right = IF ~d.some THEN ZeroTensor
                              ELSE IF l.raised \/ r.raised THEN Unset ELSE r.tensor,
                    !.raised = IF d.some /\ (l.raised \/ r.raised) THEN "TypeError"
                               ELSE "none"]

\* one get() call of the client's user
Get(x) ==
    /\ client.gets < MaxGets
    /\ GetCall(x)
    /\ UNCHANGED <<driverVars, server, solver, loop, bridge, policy, wbc>>

\* one call on the client
Stream ==
    \/ StartStreaming
    \/ StopStreaming
    \/ \E x \in Exchanges : Get(x)

(***************************************************************************)
(* G1GripperInverseKinematicsSolver.  Channel values and curls are in      *)
(* thousandths (One stands for 1.0), thresholds and distances in           *)
(* millimetres.                                                            *)
(***************************************************************************)
One == 1000

\* val * 1.1, in thousandths
Gain == 1100

\* the result of a division 0/0 (numpy's nan), which np.clip lets through
NaN == -1

\* __init__: open_thresholds and close_thresholds as assigned there
DefaultCalibration ==
    [open |-> [thumb |-> 90, fingers |-> 100], close |-> [thumb |-> 50, fingers |-> 60]]

\* calibrations explored: the one of __init__, a wider one, one whose open
\* and close thresholds coincide, and one with open below close
Calibrations ==
    {DefaultCalibration,
     [open |-> [thumb |-> 120, fingers |-> 150], close |-> [thumb |-> 20, fingers |-> 30]],
     [open |-> [thumb |-> 60, fingers |-> 60], close |-> [thumb |-> 60, fingers |-> 60]],
     [open |-> [thumb |-> 40, fingers |-> 50], close |-> [thumb |-> 80, fingers |-> 90]]}

\* a solver as __init__ leaves it, with calibration c
NewSolver(c) ==
    [tip_indices |-> [d \in 0..4 |-> 5 * d + 4],
     open_thresholds |-> c.open,
     close_thresholds |-> c.close,
     calls |-> 0,             \* calls made
     given |-> Unset,         \* the tensor the caller passed to the last call
     finger_data |-> Unset,   \* the caller's tensor after the last call
     q_desired |-> Unset,     \* what the last call returned
     norms |-> 0,             \* distances the last call computed
     seen |-> {}]             \* <<tensor, command>> of the calls before the last

SolverInit == solver = NewSolver(DefaultCalibration)

\* the integer part of the square root
ISqrt(n) == CHOOSE r \in 0..n : r * r <= n /\ (r + 1) * (r + 1) > n

\* np.linalg.norm(a - b)
Dist(a, b) ==
    ISqrt((a[1] - b[1]) * (a[1] - b[1]) + (a[2] - b[2]) * (a[2] - b[2])
              + (a[3] - b[3]) * (a[3] - b[3]))

\* the ratio is returned as computed
ClipMut(val) == val

\* np.clip(val, 0.0, 1.0)
Clip(val) == IF val < 0 THEN 0 ELSE IF val > One THEN One ELSE val

\* a curl that falls as the fingertip moves away from the wrist
CurlMut(dist, t_open, t_close) ==
    IF t_open > t_close
    THEN Clip(((t_open - dist) * Gain) \div (t_open - t_close))
    ELSE 0

\* a curl without the gain: the ratio itself, clipped
CurlUnitGainMut(dist, t_open, t_close) ==
    IF t_open > t_close
    THEN Clip(((dist - t_close) * One) \div (t_open - t_close))
    ELSE 0

\* get_curl: (dist - t_close) / (t_open - t_close) * 1.1, clipped.  The
\* division is numpy's: x/0 is inf, -inf or nan
Curl(dist, t_open, t_close) ==
    LET num == dist - t_close
        den == t_open - t_close
    IN  IF den > 0 THEN Clip((num * Gain) \div den)
        ELSE IF den < 0 THEN Clip(((-num) * Gain) \div (-den))
        ELSE IF num > 0 THEN One
        ELSE IF num < 0 THEN 0
        ELSE NaN

\* a check for lost tracking that looks at positions relative to the wrist
LostTrackingFlatMut(fingertips) ==
    \A i \in DOMAIN fingertips : fingertips[i].pos = fingertips[0].pos

\* the check for lost tracking never fires
LostTrackingMut(fingertips) == FALSE

\* __call__: np.allclose(fingertips, 0)
LostTracking(fingertips) ==
    \A i \in DOMAIN fingertips :
        /\ fingertips[i].rot = NoRot
        /\ fingertips[i].pos = <<0, 0, 0>>
        /\ fingertips[i].w = 0

\* a solver whose command depends on how many calls were made before
QDesiredMut(s, fingertips) == [i \in 0..6 |-> IF i < 6 THEN One - s.calls ELSE 0]

\* a solver that writes the thumb's curl to channel 0 and the little
\* finger's to channel 4
QDesiredSwapMut(s, fingertips) ==
    IF LostTracking(fingertips)
    THEN [i \in 0..6 |-> IF i < 6 THEN One ELSE 0]
    ELSE LET get_curl(tip_idx, is_thumb) ==
                 Curl(Dist(fingertips[tip_idx].pos, fingertips[0].pos),
                      IF is_thumb THEN s.open_thresholds.thumb
                      ELSE s.open_thresholds.fingers,
                      IF is_thumb THEN s.close_thresholds.thumb
                      ELSE s.close_thresholds.fingers)
         IN  [i \in 0..6 |->
                 CASE i = 0 -> get_curl(s.tip_indices[0], TRUE)
                   [] i = 1 -> get_curl(s.tip_indices[3], FALSE)
                   [] i = 2 -> get_curl(s.tip_indices[2], FALSE)
                   [] i = 3 -> get_curl(s.tip_indices[1], FALSE)
                   [] i = 4 -> get_curl(s.tip_indices[4], FALSE)
                   [] i = 5 -> One
                   [] i = 6 -> 0]

\* __call__: the returned q_desired of solver s for a tensor
QDesired(s, fingertips) ==
    IF LostTracking(fingertips)
    THEN [i \in 0..6 |-> IF i < 6 THEN One ELSE 0]
    ELSE LET wrist_pos == fingertips[0].pos
             get_curl(tip_idx, is_thumb) ==
                 Curl(Dist(fingertips[tip_idx].pos, wrist_pos),
                      IF is_thumb THEN s.open_thresholds.thumb
                      ELSE s.open_thresholds.fingers,
                      IF is_thumb THEN s.close_thresholds.thumb
                      ELSE s.close_thresholds.fingers)
         IN  [i \in 0..6 |->
                 CASE i = 0 -> get_curl(s.tip_indices[4], FALSE)
                   [] i = 1 -> get_curl(s.tip_indices[3], FALSE)
                   [] i = 2 -> get_curl(s.tip_indices[2], FALSE)
                   [] i = 3 -> get_curl(s.tip_indices[1], FALSE)
                   [] i = 4 -> get_curl(s.tip_indices[0], TRUE)
                   [] i = 5 -> One
                   [] i = 6 -> 0]

\* __call__: the distances computed, one per get_curl call
Norms(fingertips) == IF LostTracking(fingertips) THEN 0 ELSE 5

\* the tensors the solver is called with: the all-zero one and the ones the
\* client derives from 25 or more joints
Tensors ==
    {ZeroTensor}
        \cup {GenerateFingerData(h, p).tensor :
                 h \in {Hand(25, <<10, 20, 30>>, <<70, 80, 100, 60, 40>>, ZeroQuat),
                        Hand(25, <<0, 0, 0>>, <<95, 105, 105, 105, 105>>, 0),
                        Hand(25, <<0, 0, 0>>, <<50, 60, 60, 60, 60>>, 0),
                        Hand(26, <<-10, 20, 30>>, <<0, 0, 0, 0, 0>>, 2)},
                 p \in {Pose(<<100, 200, 300>>, 1), Pose(<<0, 0, 0>>, ZeroQuat)}}

\* a tensor in which every fingertip is 80 mm from the wrist
BaseTensor ==
    GenerateFingerData(Hand(25, <<0, 0, 0>>, <<80, 80, 80, 80, 80>>, 0),
                       Pose(<<0, 0, 0>>, ZeroQuat)).tensor

\* tensor t with the transform tip moved to the wrist's position plus v
MoveTip(t, tip, v) ==
    [t EXCEPT ![tip].pos = <<t[0].pos[1] + v[1], t[0].pos[2] + v[2], t[0].pos[3] + v[3]>>]

\* wrist-to-fingertip offsets of length 0, 55, 70, 88, 96, 98 and 300
Offsets ==
    {<<0, 0, 0>>, <<55, 0, 0>>, <<0, 70, 0>>, <<88, 0, 0>>, <<0, 0, 96>>, <<0, 98, 0>>,
     <<0, 0, 300>>}

\* tensors that differ in the position of one fingertip only: the thumb's,
\* the index finger's or the little finger's
SweepTensors == {MoveTip(BaseTensor, tip, v) : tip \in {4, 9, 24}, v \in Offsets}

\* __call__: one call; it assigns nothing to self and writes nothing into
\* finger_data
Call(fingertips) ==
    /\ solver.calls < MaxCalls
    /\ solver' =
          [solver EXCEPT
              !.calls = @ + 1,
              !.given = fingertips,
              !.finger_data = fingertips,
              !.q_desired = QDesired(solver, fingertips),
              !.norms = Norms(fingertips),
              !.seen = IF solver.calls = 0 THEN @
                       ELSE @ \cup {<<solver.given, solver.q_desired>>}]
    /\ UNCHANGED <<driverVars, server, client, loop, bridge, policy, wbc>>

\* one call of the solver
Retarget == \E fingertips \in Tensors : Call(fingertips)

(***************************************************************************)
(* The initial state: nothing constructed, nothing activated               *)
(***************************************************************************)
(***************************************************************************)
(* The teleop control loop: main() of run_teleop_policy_loop.py, step by   *)
(* step.  Times are in milliseconds.                                       *)
(***************************************************************************)
\* TeleopConfig.teleop_frequency, in Hz
teleop_frequency == 20

\* 1 / config.teleop_frequency
Period == 1000 \div teleop_frequency

\* time_to_get_to_initial_pose = 2
time_to_get_to_initial_pose == 2000

\* what get_action can meet at the relay: the exchanges that return no
\* snapshot, a snapshot of two tracked hands, and a snapshot without the
\* headset pose
LoopExchanges ==
    {x \in Exchanges :
        \/ x.kind # "reply"
        \/ x.data.val = ErrorData("capture", 1)
        \/ /\ "error" \notin DOMAIN x.data.val
           /\ x.data.val.left_hand_tracking_state
           /\ x.data.val.right_hand_tracking_state
           /\ x.data.val.left_hand_joints = Hand(25, <<10, 20, 30>>, <<70, 80, 100, 60, 40>>, ZeroQuat)
           /\ x.data.val.right_hand_joints # NoJoints}

\* how long get_action takes apart from a receive timeout: no time, the
\* whole period, or more
ActionTimes == {0, Period, Period + 1}

\* how a call the loop makes can end: it returns, it raises one of
\* ros_manager.exceptions(), or it raises something else
CallOutcomes == {"ok", "ros", "other"}

\* main() before ros_manager is constructed
LoopInit ==
    loop = [pc |-> "setup",
            ok |-> TRUE,              \* rclpy.ok()
            iteration |-> 0,
            cycles |-> 0,             \* cycles started
            clock |-> 0,              \* time.monotonic()
            t_start |-> 0,
            data |-> NoData,          \* the action of this cycle
            published |-> <<>>,       \* the actions handed to control_publisher
            misses |-> 0,             \* telemetry.log_timing_info calls
            exc |-> "none",           \* the exception that ended the loop
            shutdowns |-> 0]          \* ros_manager.shutdown() calls

\* lines 22-66: ROSManager, the solvers, TeleopPolicy (which starts its
\* streamers), the publisher, the rate, the telemetry
Setup ==
    /\ loop.pc = "setup"
    /\ StartCall
    /\ loop' = [loop EXCEPT !.pc = "cond"]
    /\ UNCHANGED <<driverVars, server, solver, bridge, policy, wbc>>

\* the loop goes on whatever rclpy.ok() says
ContinueMut(l) == TRUE

\* while rclpy.ok()
Continue(l) == l.ok

\* the loop is left with exception e (or with none): to the except clause
\* for one of ros_manager.exceptions(), else to the finally clause
Leave(l, e) ==
    [l EXCEPT !.pc = IF e = "ros" THEN "except" ELSE "finally", !.exc = e]

\* line 69-71: the loop condition and t_start
Cond ==
    /\ loop.pc = "cond"
    /\ Continue(loop) => loop.cycles < MaxCycles
    /\ loop' = IF Continue(loop)
               THEN [loop EXCEPT !.pc = "get_action", !.cycles = @ + 1,
                                 !.t_start = loop.clock]
               ELSE Leave(loop, "none")
    /\ UNCHANGED <<driverVars, server, client, solver, bridge, policy, wbc>>

\* lines 73-74: data = teleop_policy.get_action(), which asks the relay
\* client; a receive timeout takes the socket's RCVTIMEO
GetAction(x, d) ==
    /\ loop.pc = "get_action"
    /\ GetCall(x)
    /\ LET took == IF client'.outcome = "timeout" THEN client.socket.rcvtimeo
                   ELSE IF client'.outcome = "reply" THEN d ELSE 0
       IN  loop' = IF client'.raised # "none"
                   THEN Leave([loop EXCEPT !.clock = @ + took], "other")
                   ELSE [loop EXCEPT !.pc = "stamp", !.clock = @ + took]
    /\ UNCHANGED <<driverVars, server, solver, bridge, policy, wbc>>

\* lines 73-74: get_action interrupted
GetActionInterrupted ==
    /\ loop.pc = "get_action"
    /\ loop' = Leave(loop, "ros")
    /\ UNCHANGED <<driverVars, server, client, solver, bridge, policy, wbc>>

\* every action is given the period
TargetTimeMut(iteration, t_now) == t_now + Period

\* lines 81-84
TargetTime(iteration, t_now) ==
    IF iteration = 0 THEN t_now + time_to_get_to_initial_pose ELSE t_now + Period

\* lines 77-84: t_now, data["timestamp"], data["target_time"]
Stamp ==
    /\ loop.pc = "stamp"
    /\ loop' = [loop EXCEPT
                   !.pc = "publish",
                   !.data = [some |-> TRUE,
                             val |-> [timestamp |-> loop.clock,
                                      target_time |-> TargetTime(loop.iteration, loop.clock)]]]
    /\ UNCHANGED <<driverVars, server, client, solver, bridge, policy, wbc>>

\* lines 87-88: control_publisher.publish(data)
Publish(out) ==
    /\ loop.pc = "publish"
    /\ loop' = IF out = "ok"
               THEN [loop EXCEPT !.pc = "warmup",
                                 !.published = Append(@, loop.data.val)]
               ELSE Leave(loop, out)
    /\ UNCHANGED <<driverVars, server, client, solver, bridge, policy, wbc>>

\* every cycle sleeps the warm-up duration
WarmUpWaitMut(iteration) == time_to_get_to_initial_pose

\* lines 91-93: if iteration == 0: time.sleep(time_to_get_to_initial_pose)
WarmUpWait(iteration) == IF iteration = 0 THEN time_to_get_to_initial_pose ELSE 0

\* lines 91-94: the first cycle sleeps time_to_get_to_initial_pose;
\* iteration += 1
WarmUp ==
    /\ loop.pc = "warmup"
    /\ loop' = [loop EXCEPT
                   !.pc = "measure",
                   !.clock = @ + WarmUpWait(loop.iteration),
                   !.iteration = @ + 1]
    /\ UNCHANGED <<driverVars, server, client, solver, bridge, policy, wbc>>

\* a cycle that took the period is reported
MissedMut(took) == took >= Period

\* line 96: (end_time - t_start) > (1 / config.teleop_frequency)
Missed(took) == took > Period

\* lines 95-97: end_time, and telemetry.log_timing_info for a slow cycle
Measure ==
    /\ loop.pc = "measure"
    /\ loop' = [loop EXCEPT
                   !.pc = "rate",
                   !.misses = IF Missed(loop.clock - loop.t_start) THEN @ + 1 ELSE @]
    /\ UNCHANGED <<driverVars, server, client, solver, bridge, policy, wbc>>

\* line 98: rate.sleep(), to the end of the period
RateSleep(out) ==
    /\ loop.pc = "rate"
    /\ loop' = IF out = "ok"
               THEN [loop EXCEPT
                        !.pc = "cond",
                        !.clock = IF @ - loop.t_start < Period
                                  THEN loop.t_start + Period ELSE @]
               ELSE Leave(loop, out)
    /\ UNCHANGED <<driverVars, server, client, solver, bridge, policy, wbc>>

\* lines 100-101: except ros_manager.exceptions()
Except ==
    /\ loop.pc = "except"
    /\ loop' = [loop EXCEPT !.pc = "finally"]
    /\ UNCHANGED <<driverVars, server, client, solver, bridge, policy, wbc>>

\* lines 103-105: finally: ros_manager.shutdown(); then main() returns, or
\* the exception that was not caught leaves it
Cleanup ==
    /\ loop.pc = "finally"
    /\ loop' = [loop EXCEPT !.pc = IF loop.exc = "other" THEN "raised" ELSE "returned",
                            !.shutdowns = @ + 1]
    /\ UNCHANGED <<driverVars, server, client, solver, bridge, policy, wbc>>

\* the external shutdown signal: rclpy.ok() is false from now on
Signal ==
    /\ loop.ok
    /\ loop.pc \notin {"returned", "raised"}
    /\ loop' = [loop EXCEPT !.ok = FALSE]
    /\ UNCHANGED <<driverVars, server, client, solver, bridge, policy, wbc>>

\* one step of main()
LoopStep ==
    \/ Setup
    \/ Cond
    \/ \E x \in LoopExchanges, d \in ActionTimes : GetAction(x, d)
    \/ GetActionInterrupted
    \/ Stamp
    \/ \E out \in CallOutcomes : Publish(out)
    \/ WarmUp
    \/ Measure
    \/ \E out \in CallOutcomes : RateSleep(out)
    \/ Except
    \/ Cleanup

(***************************************************************************)
(* InspireHandDriver statement by statement: the command lock, the two     *)
(* loops with their tests of self.running, and a set_hand_cmd caller.  The *)
(* object is built by one __init__ and, as two racing constructions both   *)
(* pass the _initialized check, allocated again by a second one.           *)
(***************************************************************************)
\* arguments of set_hand_cmd in this scenario
TaskCmds == {QCmd(6, 30)}

\* what self.sub.Read() does: a frame, nothing, or an exception
TaskReads == {"msg", "none", "raise"}

\* nobody is inside set_hand_cmd
NotCalling == [pc |-> "idle", is_left |-> FALSE, q_cmd |-> Unset, i |-> 0, lock |-> 0]

\* before the first __init__
BridgeInit ==
    bridge = [built |-> FALSE,                   \* the first __init__ ran
              again |-> FALSE,                   \* the second __init__ ran
              cmd_q |-> Unset,                   \* self.cmd_q
              cmd_lock |-> 0,                    \* self.cmd_lock: which Lock object
              held |-> [l \in 1..2 |-> "free"],  \* who holds each Lock object
              running |-> FALSE,                 \* self.running
              send |-> [pc |-> "off", i |-> 0, lock |-> 0, msg |-> Unset],
              recv |-> [pc |-> "off"],
              call |-> NotCalling,                   \* the set_hand_cmd call in progress
              peer |-> NotCalling,               \* the call of a second thread in progress
              mirror |-> 0,                      \* frames written into joint_q, joint_dq, joint_tau
              whole |-> [h \in BOOLEAN |-> {}],  \* what each hand's slots held between calls
              wire |-> Unset,                    \* the targets of the last frame written
              frames |-> 0, reads |-> 0, calls |-> 0, peer_calls |-> 0]

\* __init__ (lines 56-68) of the first construction: cmd_q, cmd_lock,
\* running, both threads
Build ==
    /\ ~bridge.built
    /\ bridge' = [bridge EXCEPT
                     !.built = TRUE,
                     !.cmd_q = InitialCmd,
                     !.cmd_lock = 1,
                     !.running = TRUE,
                     !.send.pc = "test",
                     !.send.msg = [i \in Motors |-> DefaultCmd.q],
                     !.recv.pc = "test",
                     !.whole = [h \in BOOLEAN |-> {Slice(InitialCmd, h)}]]
    /\ UNCHANGED <<driverVars, server, client, solver, loop, policy, wbc>>

\* lines 56-66 of the second construction: self.cmd_q = np.ones(TOTAL_MOTORS),
\* self.cmd_lock = threading.Lock(), self.running = True
Again ==
    /\ bridge.built
    /\ ~bridge.again
    /\ bridge' = [bridge EXCEPT !.again = TRUE, !.cmd_q = InitialCmd, !.cmd_lock = 2,
                                !.running = TRUE]
    /\ UNCHANGED <<driverVars, server, client, solver, loop, policy, wbc>>

\* the loops go on whatever self.running is
StillRunningMut(b) == TRUE

\* while self.running
StillRunning(b) == b.running

\* the lock stays with its holder
ReleasedMut(who) == who

\* leaving the with block
Released(who) == "free"

\* line 89: while self.running; line 90: with self.cmd_lock reads the attribute
EmitTest ==
    /\ bridge.send.pc = "test"
    /\ StillRunning(bridge) => bridge.frames < MaxTaskIters
    /\ bridge' = IF StillRunning(bridge)
                 THEN [bridge EXCEPT !.send.pc = "lock", !.send.lock = bridge.cmd_lock]
                 ELSE [bridge EXCEPT !.send.pc = "stopped"]
    /\ UNCHANGED <<driverVars, server, client, solver, loop, policy, wbc>>

\* line 90: the lock is acquired
EmitLock ==
    /\ bridge.send.pc = "lock"
    /\ bridge.held[bridge.send.lock] = "free"
    /\ bridge' = [bridge EXCEPT !.send.pc = "copy", !.send.i = 0,
                                !.held[bridge.send.lock] = "send"]
    /\ UNCHANGED <<driverVars, server, client, solver, loop, policy, wbc>>

\* lines 91-95: msg.cmds[i].q = self.cmd_q[i]; after the last entry the with
\* block is left
EmitCopy ==
    /\ bridge.send.pc = "copy"
    /\ LET i == bridge.send.i
           last == i + 1 = TOTAL_MOTORS
       IN  bridge' = [bridge EXCEPT
                         !.send.msg[i] = bridge.cmd_q[i],
                         !.send.i = i + 1,
                         !.send.pc = IF last THEN "write" ELSE "copy",
                         !.held[bridge.send.lock] = IF last THEN Released("send") ELSE @]
    /\ UNCHANGED <<driverVars, server, client, solver, loop, policy, wbc>>

\* lines 97-98: self.pub.Write(msg); time.sleep(0.01)
EmitWrite(ok) ==
    /\ bridge.send.pc = "write"
    /\ bridge' = IF ok
                 THEN [bridge EXCEPT !.send.pc = "test", !.wire = bridge.send.msg,
                                     !.frames = @ + 1]
                 ELSE [bridge EXCEPT !.send.pc = "dead"]
    /\ UNCHANGED <<driverVars, server, client, solver, loop, policy, wbc>>

\* line 74: while self.running
IngestTest ==
    /\ bridge.recv.pc = "test"
    /\ StillRunning(bridge) => bridge.reads < MaxTaskIters
    /\ bridge' = [bridge EXCEPT !.recv.pc = IF StillRunning(bridge) THEN "read" ELSE "stopped"]
    /\ UNCHANGED <<driverVars, server, client, solver, loop, policy, wbc>>

\* line 75: msg = self.sub.Read()
IngestRead(out) ==
    /\ bridge.recv.pc = "read"
    /\ bridge' = [bridge EXCEPT
                     !.reads = @ + 1,
                     !.recv.pc = CASE out = "msg" -> "store"
                                   [] out = "none" -> "test"
                                   [] OTHER -> "dead"]
    /\ UNCHANGED <<driverVars, server, client, solver, loop, policy, wbc>>

\* lines 76-82: the frame goes into the state mirror; time.sleep(0.002)
IngestStore ==
    /\ bridge.recv.pc = "store"
    /\ bridge' = [bridge EXCEPT !.recv.pc = "test", !.mirror = @ + 1]
    /\ UNCHANGED <<driverVars, server, client, solver, loop, policy, wbc>>

\* lines 112-116: start_idx, limit; with self.cmd_lock reads the attribute
SetBegin(is_left, q_cmd) ==
    /\ bridge.built
    /\ bridge.call.pc = "idle"
    /\ bridge.calls < MaxCmdCalls
    /\ bridge' = [bridge EXCEPT
                     !.call = [pc |-> "lock", is_left |-> is_left, q_cmd |-> q_cmd,
                               i |-> 0, lock |-> bridge.cmd_lock]]
    /\ UNCHANGED <<driverVars, server, client, solver, loop, policy, wbc>>

\* line 116: the lock is acquired
SetLock ==
    /\ bridge.call.pc = "lock"
    /\ bridge.held[bridge.call.lock] = "free"
    /\ bridge' = [bridge EXCEPT !.call.pc = "store", !.held[bridge.call.lock] = "set"]
    /\ UNCHANGED <<driverVars, server, client, solver, loop, policy, wbc>>

\* lines 117-118: self.cmd_q[start_idx + i] = q_cmd[i]; after the last entry
\* the with block is left and the call returns
SetStore ==
    /\ bridge.call.pc = "store"
    /\ LET c == bridge.call
           last == c.i + 1 = Limit(c.q_cmd)
           q == [bridge.cmd_q EXCEPT ![StartIdx(c.is_left) + c.i] = c.q_cmd[c.i]]
       IN  bridge' = [bridge EXCEPT
                         !.cmd_q = q,
                         !.call = IF last THEN NotCalling ELSE [c EXCEPT !.i = c.i + 1],
                         !.held[c.lock] = IF last THEN Released("set") ELSE @,
                         !.calls = IF last THEN @ + 1 ELSE @,
                         !.whole[c.is_left] = IF last THEN @ \cup {Slice(q, c.is_left)} ELSE @]
    /\ UNCHANGED <<driverVars, server, client, solver, loop, policy, wbc>>

\* arguments of the second thread's set_hand_cmd calls: longer than a hand
PeerCmds == {QCmd(7, 40)}

\* lines 112-116 in a second thread
PeerBegin(is_left, q_cmd) ==
    /\ bridge.built
    /\ bridge.peer.pc = "idle"
    /\ bridge.peer_calls < MaxCmdCalls
    /\ bridge' = [bridge EXCEPT
                     !.peer = [pc |-> "lock", is_left |-> is_left, q_cmd |-> q_cmd,
                               i |-> 0, lock |-> bridge.cmd_lock]]
    /\ UNCHANGED <<driverVars, server, client, solver, loop, policy, wbc>>

\* line 116 in a second thread
PeerLock ==
    /\ bridge.peer.pc = "lock"
    /\ bridge.held[bridge.peer.lock] = "free"
    /\ bridge' = [bridge EXCEPT !.peer.pc = "store", !.held[bridge.peer.lock] = "peer"]
    /\ UNCHANGED <<driverVars, server, client, solver, loop, policy, wbc>>

\* lines 117-118 in a second thread
PeerStore ==
    /\ bridge.peer.pc = "store"
    /\ LET c == bridge.peer
           last == c.i + 1 = Limit(c.q_cmd)
           q == [bridge.cmd_q EXCEPT ![StartIdx(c.is_left) + c.i] = c.q_cmd[c.i]]
       IN  bridge' = [bridge EXCEPT
                         !.cmd_q = q,
                         !.peer = IF last THEN NotCalling ELSE [c EXCEPT !.i = c.i + 1],
                         !.held[c.lock] = IF last THEN Released("peer") ELSE @,
                         !.peer_calls = IF last THEN @ + 1 ELSE @,
                         !.whole[c.is_left] = IF last THEN @ \cup {Slice(q, c.is_left)} ELSE @]
    /\ UNCHANGED <<driverVars, server, client, solver, loop, policy, wbc>>

\* the owner of the driver clears self.running
ClearRunning ==
    /\ bridge.built
    /\ bridge.running
    /\ bridge' = [bridge EXCEPT !.running = FALSE]
    /\ UNCHANGED <<driverVars, server, client, solver, loop, policy, wbc>>

\* one step of the emission task
EmitStep ==
    \/ EmitTest
    \/ EmitLock
    \/ EmitCopy
    \/ \E ok \in BOOLEAN : EmitWrite(ok)

\* one step of the ingestion task
IngestStep ==
    \/ IngestTest
    \/ \E out \in TaskReads : IngestRead(out)
    \/ IngestStore

\* one step of a set_hand_cmd call
SetStep ==
    \/ \E is_left \in BOOLEAN, q_cmd \in TaskCmds : SetBegin(is_left, q_cmd)
    \/ SetLock
    \/ SetStore

(***************************************************************************)
(* The teleop policy's hand path: each cycle asks the relay client and      *)
(* hands the tensor of each hand to that hand's solver.                     *)
(***************************************************************************)
\* no cycle has returned yet
NoCycle == [some |-> FALSE]

\* what a cycle can meet at the relay: the exchanges that return no
\* snapshot, the capture error payload, and the snapshots of every reading,
\* the fully tracked ones at two different times
PolicyExchanges ==
    {x \in Exchanges : x.kind # "reply" \/ x.data.val = ErrorData("capture", 1)}
        \cup {[kind |-> "reply", data |-> [some |-> TRUE, val |-> Snapshot(r, "none", 1)]] :
                 r \in Readings}
        \cup {[kind |-> "reply", data |-> [some |-> TRUE, val |-> Snapshot(r, "none", 2)]] :
                 r \in {r \in Readings : /\ r.left_hand_tracking_state
                                           /\ r.right_hand_tracking_state
                                           /\ r.left_hand_joints.some
                                           /\ r.right_hand_joints.some}}

\* before the policy is constructed
PolicyInit ==
    policy = [pc |-> "start",
              cycles |-> 0,           \* cycles started
              q |-> [h \in BOOLEAN |-> Unset],   \* the command of each hand (TRUE: left)
              prev |-> NoCycle]       \* what the cycle before received, derived and commanded

\* the policy is constructed: it starts its streamer
PolicyStart ==
    /\ policy.pc = "start"
    /\ StartCall
    /\ policy' = [policy EXCEPT !.pc = "get"]
    /\ UNCHANGED <<driverVars, server, solver, loop, bridge, wbc>>

\* a cycle begins: streamer.get(); an exception of get() ends the cycle
\* without a command
PolicyAcquire(x) ==
    /\ policy.pc = "get"
    /\ policy.cycles < MaxPolicyCycles
    /\ GetCall(x)
    /\ policy' = [policy EXCEPT
                     !.pc = IF client'.raised # "none" THEN "raised" ELSE "solve",
                     !.cycles = @ + 1,
                     !.q = [h \in BOOLEAN |-> Unset],
                     !.prev = IF policy.cycles = 0 THEN NoCycle
                              ELSE [some |-> TRUE, data |-> client.data,
                                    left |-> client.left, right |-> client.right,
                                    q |-> policy.q]]
    /\ UNCHANGED <<driverVars, server, solver, loop, bridge, wbc>>

\* the cycle ends: left_hand_ik_solver(ik_data["left_fingers"]) and
\* right_hand_ik_solver(ik_data["right_fingers"])
PolicySolve ==
    /\ policy.pc = "solve"
    /\ policy' = [policy EXCEPT
                     !.pc = "get",
                     !.q = [h \in BOOLEAN |->
                               QDesired(solver, IF h THEN client.left ELSE client.right)]]
    /\ UNCHANGED <<driverVars, server, client, solver, loop, bridge, wbc>>

\* one step of the policy
PolicyStep ==
    \/ PolicyStart
    \/ \E x \in PolicyExchanges : PolicyAcquire(x)
    \/ PolicySolve

(***************************************************************************)
(* override_wbc_config of configs.py on a loaded WBC configuration.  A      *)
(* dictionary is a function from its keys to values; the values are "yaml"  *)
(* for what the file held and "dataclass" for what the config object holds. *)
(***************************************************************************)
\* the keys of key_to_value
OverrideKeys ==
    {"INTERFACE", "ENV_TYPE", "VERSION", "SIMULATOR", "SIMULATE_DT", "ENABLE_OFFSCREEN",
     "ENABLE_ONSCREEN", "model_path", "enable_waist", "with_hands", "HAND_TYPE", "verbose",
     "verbose_timing", "upper_body_max_joint_speed", "keyboard_dispatcher_type",
     "enable_gravity_compensation", "gravity_compensation_joints", "high_elbow_pose"}

\* key_to_value for a config object whose env_type is env_type
KeyToValue(env_type) ==
    [k \in OverrideKeys |-> IF k = "ENV_TYPE" THEN env_type ELSE "dataclass"]

\* the dictionaries a YAML file can give: any of three override keys may be
\* missing, and so may MOTOR_KD, whose entry 14 is 20
LoadedConfigs ==
    {[k \in (OverrideKeys \ missing) \cup (IF kd THEN {"MOTOR_KD"} ELSE {}) |->
         IF k = "MOTOR_KD" THEN 20 ELSE "yaml"] :
        missing \in SUBSET {"HAND_TYPE", "high_elbow_pose", "ENV_TYPE"}, kd \in BOOLEAN}

\* before the file is loaded
WbcInit ==
    wbc = [loaded |-> FALSE,
           wbc_config |-> Unset,         \* the dictionary
           before |-> Unset,             \* the dictionary when the last call began
           calls |-> 0,
           missed_keys_only |-> FALSE,   \* arguments of the last call
           env_type |-> "sim",
           raised |-> "none"]            \* the exception the last call raised

\* the caller loads the YAML file
LoadYaml(c) ==
    /\ ~wbc.loaded
    /\ wbc' = [wbc EXCEPT !.loaded = TRUE, !.wbc_config = c]
    /\ UNCHANGED <<driverVars, server, client, solver, loop, bridge, policy>>

\* lines 56-64: the two loops over key_to_value
Merged(wbc_config, key_to_value, missed_keys_only) ==
    [k \in DOMAIN wbc_config \cup DOMAIN key_to_value |->
        IF k \in DOMAIN key_to_value /\ (~missed_keys_only \/ k \notin DOMAIN wbc_config)
        THEN key_to_value[k]
        ELSE wbc_config[k]]

\* override_wbc_config(wbc_config, config, missed_keys_only): the dictionary
\* is updated in place; line 69 raises KeyError without MOTOR_KD
OverrideWbcConfig(env_type, missed_keys_only) ==
    /\ wbc.loaded
    /\ wbc.calls < MaxOverrides
    /\ LET merged == Merged(wbc.wbc_config, KeyToValue(env_type), missed_keys_only)
           real == env_type = "real"
       IN  wbc' = [wbc EXCEPT
                      !.before = wbc.wbc_config,
                      !.calls = @ + 1,
                      !.missed_keys_only = missed_keys_only,
                      !.env_type = env_type,
                      !.wbc_config =
                          IF real /\ "MOTOR_KD" \in DOMAIN merged
                          THEN [merged EXCEPT !["MOTOR_KD"] = @ - 10]
                          ELSE merged,
                      !.raised = IF real /\ "MOTOR_KD" \notin DOMAIN merged
                                 THEN "KeyError" ELSE "none"]
    /\ UNCHANGED <<driverVars, server, client, solver, loop, bridge, policy>>

\* one step of the configuration's user
Configure ==
    \/ \E c \in LoadedConfigs : LoadYaml(c)
    \/ \E env_type \in {"sim", "real"}, missed_keys_only \in BOOLEAN :
           OverrideWbcConfig(env_type, missed_keys_only)

\* one step of a set_hand_cmd call of a second thread
PeerStep ==
    \/ \E is_left \in BOOLEAN, q_cmd \in PeerCmds : PeerBegin(is_left, q_cmd)
    \/ PeerLock
    \/ PeerStore

Init ==
    /\ DriverInit
    /\ ServerInit
    /\ ClientInit
    /\ SolverInit
    /\ LoopInit
    /\ BridgeInit
    /\ PolicyInit
    /\ WbcInit

(***************************************************************************)
(* The components as a whole, and the scenarios the claims are checked under*)
(***************************************************************************)
\* one InspireHandDriver() call by thread t, step by step, the channel
\* factory answering with one of outcomes
ConstructWith(t, outcomes) ==
    \/ New(t)
    \/ InitCheck(t)
    \/ \E ok \in outcomes : FactoryInit(t, ok)
    \/ AllocState(t)
    \/ AllocCmd(t)
    \/ CreatePubSub(t)
    \/ StartThreads(t)
    \/ MarkInitialized(t)

\* one InspireHandDriver() call by thread t
Construct(t) == ConstructWith(t, BOOLEAN)

\* one step of the ingestion thread started by t
Ingest(t) ==
    \/ \E out \in ReadOutcomes : RecvRead(t, out)
    \/ RecvWriteQ(t)
    \/ RecvWriteDq(t)
    \/ RecvWriteTau(t)

\* one step of the emission thread started by t
Emit(t) ==
    \/ SendBuild(t)
    \/ \E ok \in BOOLEAN : SendWrite(t, ok)

\* every thread and every caller, freely interleaved
Next ==
    \/ \E t \in Ctors : Construct(t)
    \/ \E t \in Ctors : Ingest(t)
    \/ \E t \in Ctors : Emit(t)
    \/ \E is_left \in BOOLEAN : GetHandState(is_left)
    \/ \E is_left \in BOOLEAN, q_cmd \in QCmds : SetHandCmd(is_left, q_cmd)
    \/ Serve
    \/ Stream
    \/ Retarget
    \/ LoopStep
    \/ Signal
    \/ Build
    \/ Again
    \/ EmitStep
    \/ IngestStep
    \/ SetStep
    \/ PeerStep
    \/ ClearRunning
    \/ PolicyStep
    \/ Configure

Spec == Init /\ [][Next]_vars

\* Construction: all threads construct concurrently; callers read the state.
\* The loops and set_hand_cmd touch none of what __new__/__init__ decide on.
NextCtor ==
    \/ \E t \in Ctors : Construct(t)
    \/ \E is_left \in BOOLEAN : GetHandState(is_left)

SpecCtor == Init /\ [][NextCtor]_vars

\* State path: one construction, then the ingestion thread against callers
\* of get_hand_state.  The emission thread and set_hand_cmd touch only the
\* command mirror, which the state path never reads.
NextIngest ==
    \/ Construct("T1")
    \/ Ingest("T1")
    \/ \E is_left \in BOOLEAN : GetHandState(is_left)

SpecIngest == Init /\ [][NextIngest]_vars

\* Command path: concurrent constructions, the emission threads and callers
\* of set_hand_cmd.  The ingestion thread touches only the state mirror, and
\* the outcome of the channel factory only the warning; here it succeeds.
NextEmit ==
    \/ \E t \in Ctors : ConstructWith(t, {TRUE})
    \/ \E t \in Ctors : Emit(t)
    \/ \E is_left \in BOOLEAN, q_cmd \in QCmds : SetHandCmd(is_left, q_cmd)

SpecEmit == Init /\ [][NextEmit]_vars

\* Accessor round trip: one construction; set_hand_cmd calls, then exactly
\* one emission iteration, whose frame is looped back as the one frame of
\* one ingestion iteration, then get_hand_state.
NextLoopback ==
    \/ Construct("T1")
    \/ /\ nSend = 0
       /\ \E is_left \in BOOLEAN, q_cmd \in QCmds : SetHandCmd(is_left, q_cmd)
    \/ /\ lastSet.called
       /\ nSend = 0
       /\ SendBuild("T1")
    \/ SendWrite("T1", TRUE)
    \/ /\ nSent = 1
       /\ nRecv = 0
       /\ RecvRead("T1", ReadMsg(Loopback(wire)))
    \/ RecvWriteQ("T1")
    \/ RecvWriteDq("T1")
    \/ RecvWriteTau("T1")
    \/ /\ nRecv = 1
       /\ recvPc["T1"] = "head"
       /\ \E is_left \in BOOLEAN : GetHandState(is_left)

SpecLoopback == Init /\ [][NextLoopback]_vars

\* The relay server process on its own: it shares nothing with the driver.
NextServer == Serve

SpecServer == Init /\ [][NextServer]_vars

\* The relay client on its own, against every exchange a server can give it.
NextClient == Stream

SpecClient == Init /\ [][NextClient]_vars

\* The solver on its own, for each calibration and each tensor.
InitSolver ==
    /\ DriverInit
    /\ ServerInit
    /\ ClientInit
    /\ solver \in {NewSolver(c) : c \in Calibrations}
    /\ LoopInit
    /\ BridgeInit
    /\ PolicyInit
    /\ WbcInit

NextSolver == Retarget

SpecSolver == InitSolver /\ [][NextSolver]_vars

\* The solver as __init__ leaves it, over the tensors above and the sweep of
\* fingertip distances.
NextRetarget ==
    /\ solver.calls < MaxSweeps
    /\ \E fingertips \in Tensors \cup SweepTensors : Call(fingertips)

SpecRetarget == Init /\ [][NextRetarget]_vars

\* Two threads that call set_hand_cmd, one for the left hand and one for the
\* right, next to the ingestion task, on a driver that is constructed once
\* or twice.
NextCallers ==
    \/ Build
    \/ Again
    \/ \E q_cmd \in TaskCmds : SetBegin(TRUE, q_cmd)
    \/ SetLock
    \/ SetStore
    \/ \E q_cmd \in PeerCmds : PeerBegin(FALSE, q_cmd)
    \/ PeerLock
    \/ PeerStore
    \/ IngestStep

SpecCallers == Init /\ [][NextCallers]_vars

\* The hand path of one teleop cycle after another: the relay client against
\* every exchange, then the solvers.
NextPolicy == PolicyStep

SpecPolicy == Init /\ [][NextPolicy]_vars

\* A loaded WBC configuration and override_wbc_config calls on it.
NextConfigure == Configure

SpecConfigure == Init /\ [][NextConfigure]_vars

\* The control loop: main() and the shutdown signal.
NextLoop ==
    \/ LoopStep
    \/ Signal

SpecLoop == Init /\ [][NextLoop]_vars

\* The process runs main(): a step that can be taken is taken.
FairSpecLoop == SpecLoop /\ WF_vars(LoopStep)

\* The command side statement by statement: the emission task, a
\* set_hand_cmd caller and the second construction.
NextTasks ==
    \/ Build
    \/ Again
    \/ EmitStep
    \/ SetStep

SpecTasks == Init /\ [][NextTasks]_vars

\* Both tasks and a set_hand_cmd caller on the object of one construction.
NextWait ==
    \/ Build
    \/ EmitStep
    \/ IngestStep
    \/ SetStep

SpecWait == Init /\ [][NextWait]_vars

\* The driver's tasks statement by statement, with the second construction
\* and the owner clearing the running flag.
NextStop ==
    \/ Build
    \/ Again
    \/ EmitStep
    \/ IngestStep
    \/ ClearRunning

SpecStop == Init /\ [][NextStop]_vars

\* Both task threads are scheduled.
FairSpecStop == SpecStop /\ WF_vars(EmitStep) /\ WF_vars(IngestStep)

(***************************************************************************)
(* Claims                                                                  *)
(***************************************************************************)
\* what the constructions share: the instance, its channel objects, its
\* threads and its mirrors
Resources ==
    <<instance, initialized, factoryCalls, pubCount, subCount, recvStarted, sendStarted,
      joint_q, joint_dq, joint_tau, stateGen, cmd_q, running>>

\* C1: once a construction has completed (_initialized is set), a later
\* construction returns the existing instance from __new__ and returns from
\* __init__ at once: the factory is not initialized again, no publisher,
\* subscriber or thread is created, and the mirrors are not reset; and the
\* flag stays set.
C1_RepeatConstructionReturnsExisting ==
    [][\A t \in Ctors :
         (initialized /\ ctorPc[t] \in {"start", "init"} /\ ctorPc'[t] # ctorPc[t])
         => /\ ctorPc'[t] = (IF ctorPc[t] = "start" THEN "init" ELSE "done")
            /\ ctorRet'[t] = instance
            /\ ctorRet'[t] # 0
            /\ Resources' = Resources]_vars

\* C1 witness: both constructions have returned the one instance, and the
\* initialization ran once.
C1_Witness ==
    /\ \A t \in Ctors : ctorPc[t] = "done" /\ ctorRet[t] = instance
    /\ instance # 0
    /\ factoryCalls = 1 /\ pubCount = 1 /\ recvStarted = 1 /\ stateGen = 1

\* C2 (as claimed): under concurrent construction the ingestion task, the
\* emission task, the publisher and the subscriber are each created at most
\* once.
C2_TasksCreatedOnce ==
    /\ recvStarted <= 1
    /\ sendStarted <= 1
    /\ pubCount <= 1
    /\ subCount <= 1

\* C3 (as claimed): what get_hand_state returned is a copy: while the caller
\* holds it, no step of the program changes the values the caller reads.
C3_ReturnedTripleIsCopy ==
    [][(held.has /\ held' = held) => ViewValues(held)' = ViewValues(held)]_vars

\* the mirror m after a frame of k entries was applied in full:
\* slots 0..min(k,12)-1 from the frame, the others as they were
Applied(m, states) ==
    [q |-> [j \in Motors |-> IF j < PyLen(states) THEN states[j].q ELSE m.q[j]],
     dq |-> [j \in Motors |-> IF j < PyLen(states) THEN states[j].dq ELSE m.dq[j]],
     tau |-> [j \in Motors |-> IF j < PyLen(states) THEN states[j].tau_est ELSE m.tau[j]]]

\* the hand's part of the mirror is as some whole number of frames left it:
\* as of the last completed ingestion iteration, or as the frame being
\* applied will leave it
SnapshotConsistent(is_left) ==
    \/ HandSlice(Mirror, is_left) = HandSlice(committed, is_left)
    \/ \E t \in Ctors :
         /\ recvPc[t] \in {"q", "dq", "tau"}
         /\ HandSlice(Mirror, is_left)
              = HandSlice(Applied(committed, recvMsg[t].states), is_left)

\* C4 (as claimed): every get_hand_state returns a consistent snapshot of
\* the hand: never values of a frame that is only partly applied.
C4_GetSeesWholeFrames ==
    [][nGet' # nGet => SnapshotConsistent(held'.is_left)]_vars

\* C5: set_hand_cmd(is_left, q_cmd) with n = len(q_cmd) writes q_cmd[0..min(n,6)-1]
\* into the hand's slots (right 0..5, left 6..11) in order and changes no
\* other slot: entries 6 and above are ignored, slots n..5 keep their values.
C5_SetWritesClampedPrefix ==
    [][\A h \in BOOLEAN :
         nSet'[h] # nSet[h]
         => LET v == lastSet'.q_cmd
                n == PyLen(v)
                s == IF h THEN 6 ELSE 0
            IN /\ lastSet'.is_left = h
               /\ cmd_q' = [j \in 0..11 |->
                              IF j >= s /\ j < s + n /\ j < s + 6
                              THEN v[j - s]
                              ELSE cmd_q[j]]]_vars

\* C5 witness: the left hand was set from a 7-entry q_cmd and then from a
\* 3-entry one: slots 6..8 are the short command, 9..11 entries 3..5 of the
\* long one, whose entry 6 went nowhere.
C5_Witness ==
    /\ nSet[TRUE] = 2
    /\ lastSet.is_left /\ lastSet.q_cmd = QCmd(3, 20)
    /\ cmd_q = [j \in 0..11 |->
                  IF j < 6 THEN 1 ELSE IF j < 9 THEN 20 + (j - 6) ELSE 40 + (j - 6)]

\* C6: until the first set_hand_cmd for a hand, every emitted frame carries
\* position 1 (fully open) in all 6 slots of that hand.
C6_OpenUntilFirstCommand ==
    \A h \in BOOLEAN :
        (nSet[h] = 0 /\ wire # Unset)
        => \A j \in 0..5 : wire[(IF h THEN 6 ELSE 0) + j].q = 1

\* C6 witness: a frame was emitted after the right hand was commanded and
\* before the left hand ever was.
C6_Witness ==
    /\ nSent >= 1
    /\ nSet[TRUE] = 0
    /\ nSet[FALSE] >= 1
    /\ wire # Unset
    /\ wire[0].q # 1
    /\ wire[6].q = 1

\* a frame of all 12 actuators in servo mode with zero gains
FullFrame(f) ==
    /\ DOMAIN f = 0..11
    /\ \A i \in 0..11 : f[i].mode = 1 /\ f[i].kp = 0 /\ f[i].kd = 0

\* C7: every emission iteration fills all 12 entries from the command mirror
\* (mode 1, kp = kd = 0) and hands that frame to Write exactly once, with no
\* condition on the mirror having changed: Write sends exactly that frame
\* (or raises, see C9).
C7_EveryIterationSendsFullFrame ==
    [][\A t \in Ctors :
         /\ (sendPc[t] = "build" /\ sendPc'[t] # "build")
            => /\ sendPc'[t] = "write"
               /\ nSent' = nSent
               /\ FullFrame(sendMsg'[t])
               /\ \A i \in 0..11 : sendMsg'[t][i].q = cmd_q[i]
         /\ (sendPc[t] = "write" /\ sendPc'[t] # "write")
            => \/ sendPc'[t] = "dead" /\ nSent' = nSent
               \/ /\ sendPc'[t] = "build"
                  /\ nSent' = nSent + 1
                  /\ wire' = sendMsg[t]
                  /\ FullFrame(wire')]_vars

\* C7 witness: two frames were sent although the command mirror was never
\* written.
C7_Witness ==
    /\ nSent = 2
    /\ nSet[TRUE] + nSet[FALSE] = 0
    /\ wire # Unset
    /\ FullFrame(wire)

\* C8: an ingestion iteration that received a frame of k entries leaves the
\* mirror as it was at the start of the iteration except for slots
\* 0..min(k,12)-1, which hold the frame's values; an iteration that received
\* nothing leaves the whole mirror as it was.
C8_IngestOverwritesPrefixOnly ==
    [][\A t \in Ctors :
         /\ (recvPc[t] = "head" /\ nRecv' # nRecv) => Mirror' = Mirror
         /\ (recvPc[t] \in {"head", "tau"} /\ recvPc'[t] = "head"
               /\ (nRecv' # nRecv \/ recvPc[t] = "tau"))
            => Mirror' = (IF recvMsg'[t].kind = "msg"
                          THEN Applied(committed, recvMsg'[t].states)
                          ELSE committed)]_vars

\* C8 witness: a 5-entry frame was applied after a 12-entry one: slots 0..4
\* are the short frame's, slots 5..11 still the earlier frame's.
C8_Witness ==
    /\ nRecv = 2
    /\ recvPc["T1"] = "head"
    /\ recvMsg["T1"] = ReadMsg(StateFrame(5, 1))
    /\ Mirror = Applied(Applied(ZeroMirror, StateFrame(12, 2)), StateFrame(5, 1))

\* C9 (as claimed): no background task stops running because its channel
\* read or write raised.
C9_TasksSurviveIoErrors ==
    \A t \in Ctors : recvPc[t] # "dead" /\ sendPc[t] # "dead"

\* C10: after set_hand_cmd(h, v), one emission iteration looped back and one
\* ingestion iteration, get_hand_state(h) returns positions v[0..5] when
\* len(v) >= 6, and get_hand_state of the other hand returns that hand's
\* current command.
C10_LoopbackRoundTrip ==
    held.has
    => LET got == ViewValues(held).q
       IN /\ (held.is_left = lastSet.is_left /\ PyLen(lastSet.q_cmd) >= 6)
             => got = [j \in 0..5 |-> lastSet.q_cmd[j]]
          /\ (held.is_left # lastSet.is_left)
             => got = [j \in 0..5 |-> cmd_q[(IF held.is_left THEN 6 ELSE 0) + j]]

\* C10 witness: the left hand was commanded a 7-entry v after the right hand
\* was commanded, and after the loop get_hand_state(left) shows v[0..5].
C10_Witness ==
    /\ held.has /\ held.is_left
    /\ lastSet.is_left /\ lastSet.q_cmd = QCmd(7, 40)
    /\ nSet[FALSE] >= 1
    /\ ViewValues(held).q = [j \in 0..5 |-> 40 + j]


\* C11: a ChannelFactoryInitialize call that raises does not end the
\* construction: the exception never leaves __init__, and once a factory
\* call has raised every construction that returns finds the mirrors
\* allocated, the publisher and the subscriber created, both threads started
\* and the instance marked initialized
C11_FactoryFailureNotFatal ==
    factoryFailed =>
        \A t \in Ctors :
            /\ ctorPc[t] \in {"start", "init", "factory", "alloc_state", "alloc_cmd",
                              "pubsub", "threads", "mark", "done"}
            /\ ctorPc[t] = "done" =>
                   /\ PyLen(joint_q) = TOTAL_MOTORS
                   /\ PyLen(joint_dq) = TOTAL_MOTORS
                   /\ PyLen(joint_tau) = TOTAL_MOTORS
                   /\ PyLen(cmd_q) = TOTAL_MOTORS
                   /\ pubCount >= 1
                   /\ subCount >= 1
                   /\ recvStarted >= 1
                   /\ sendStarted >= 1
                   /\ initialized

\* a factory call raised, and every construction returned
C11_Witness ==
    /\ factoryFailed
    /\ factoryCalls >= 1
    /\ \A t \in Ctors : ctorPc[t] = "done"
    /\ initialized
    /\ recvStarted >= 1
    /\ sendStarted >= 1

\* C12: in an iteration of the serve loop in which the capture raised and
\* nothing else did, the handler answers the pending request with exactly one
\* reply, the error payload carrying the description of the capture error
\* and a timestamp, and the loop is back at recv for the next request
C12_CaptureErrorAnswered ==
    server.failed = {"capture"} =>
        \/ /\ server.pc = "handler"
           /\ server.pending
           /\ server.replies = 0
        \/ /\ server.pc = "recv"
           /\ ~server.pending
           /\ server.replies = 1
           /\ server.reply = [error |-> "capture", timestamp |-> server.clock]
           /\ server.run_exit = "none"

C12_Witness ==
    /\ server.failed = {"capture"}
    /\ server.pc = "recv"
    /\ server.replies = 1
    /\ "error" \in DOMAIN server.reply

\* C13: whichever step of an iteration raises, every received request gets
\* exactly one reply, no send is attempted while the socket holds no
\* request, and run() ends only by a keyboard interrupt
C13_OneReplyPerRequest ==
    /\ server.bad_sends = 0
    /\ server.run_exit \in {"none", "interrupt"}
    /\ server.pc = "recv" /\ server.requests > 0 /\ server.failed # {"recv"}
          => server.replies = 1

\* C14: when the activate() scope has been left, each of the socket, the
\* context and the device client that was acquired has been released, and
\* the exception that leaves the scope is the one the cleanup was entered
\* with
C14_CleanupReleasesAll ==
    server.pc = "exited" =>
        /\ server.socket # "open"
        /\ server.context # "open"
        /\ server.xr_client # "open"
        /\ server.error = server.original

\* C15: a start_streaming call made while the client has a socket creates
\* no context and no socket and leaves the socket, its connection and its
\* receive timeout of 2000 ms as they were
C15_StartIdempotent ==
    [][(client'.starts # client.starts /\ client.socket.id # 0) =>
           /\ client'.socket = client.socket
           /\ client'.context = client.context
           /\ client'.contexts = client.contexts
           /\ client'.sockets = client.sockets
           /\ client'.socket.connected
           /\ client'.socket.rcvtimeo = 2000]_vars

\* start_streaming was called twice in a row
C15_Witness ==
    /\ client.starts = 2
    /\ client.call = "start"
    /\ client.sockets = 1
    /\ client.socket.id = 1

\* C16: get() on a started client never raises, and after a send error, a
\* receive timeout, a receive error or an error payload it returns all-zero
\* tensors for both hands
C16_GetNeverRaises ==
    (client.call = "get" /\ client.outcome # "not_started") =>
        /\ client.raised = "none"
        /\ client.outcome \in {"send_error", "timeout", "recv_error", "error_reply"} =>
               /\ client.left = ZeroTensor
               /\ client.right = ZeroTensor

Short(hand_joints) == ~hand_joints.some \/ PyLen(hand_joints.joints) < 25

\* C18: after a get() that received a snapshot, a hand with no joints or
\* fewer than 25 has the all-zero tensor, whatever the headset pose and the
\* other hand are, and the other hand has the tensor derived from its own
\* joints
C18_ShortHandZero ==
    (client.call = "get" /\ client.data.some) =>
        LET d == client.data.val
        IN  /\ Short(d.left_hand_joints) =>
                   /\ client.raised = "none"
                   /\ client.left = ZeroTensor
                   /\ client.right =
                          GenerateFingerData(d.right_hand_joints, d.headset_pose).tensor
            /\ Short(d.right_hand_joints) =>
                   /\ client.raised = "none"
                   /\ client.right = ZeroTensor
                   /\ client.left =
                          GenerateFingerData(d.left_hand_joints, d.headset_pose).tensor

C20_ZeroTensorOpens ==
    (solver.calls > 0 /\ solver.given = ZeroTensor) =>
        /\ \A i \in 0..4 : solver.q_desired[i] = One
        /\ solver.norms = 0

\* the all-zero tensor was given to a solver whose open and close
\* thresholds coincide
C20_Witness ==
    /\ solver.calls > 0
    /\ solver.given = ZeroTensor
    /\ solver.open_thresholds = solver.close_thresholds
    /\ solver.q_desired[0] = One

\* C21: every channel of every command the solver returns lies in [0, 1]
C21_ChannelsClamped ==
    solver.calls > 0 =>
        \A i \in 0..6 : solver.q_desired[i] >= 0 /\ solver.q_desired[i] <= One

\* a fingertip 300 mm from the wrist, its channel at 1.0, and a fingertip
\* at the wrist, its channel at 0.0
C21_Witness ==
    /\ solver.calls = 2
    /\ Dist(solver.given[9].pos, solver.given[0].pos) = 300
    /\ solver.q_desired[3] = One
    /\ \E p \in solver.seen :
           /\ ~LostTracking(p[1])
           /\ Dist(p[1][4].pos, p[1][0].pos) = 0
           /\ p[2][4] = 0

\* the channel of digit d (0: thumb .. 4: little finger)
Channel(d) == 4 - d

\* tensors a and b are equal but for the position of transform tip
OnlyTipDiffers(a, b, tip) ==
    /\ \A i \in 0..24 : i # tip => a[i] = b[i]
    /\ a[tip].rot = b[tip].rot
    /\ a[tip].w = b[tip].w

\* the calls made so far, as <<tensor, command>>
CallsMade ==
    IF solver.calls = 0 THEN {}
    ELSE solver.seen \cup {<<solver.given, solver.q_desired>>}

\* C22: of two calls with non-zero tensors that differ only in the position
\* of one fingertip, the one whose fingertip is not nearer to the wrist
\* returns a channel for that digit that is not smaller
C22_CurlMonotone ==
    \A p \in CallsMade, q \in CallsMade, d \in 0..4 :
        LET tip == solver.tip_indices[d]
        IN  (/\ ~LostTracking(p[1])
             /\ ~LostTracking(q[1])
             /\ OnlyTipDiffers(p[1], q[1], tip)
             /\ Dist(p[1][tip].pos, p[1][0].pos) <= Dist(q[1][tip].pos, q[1][0].pos))
                => p[2][Channel(d)] <= q[2][Channel(d)]

\* two calls whose tensors differ in the index fingertip only, the farther
\* one with the strictly larger channel
C22_Witness ==
    \E p \in solver.seen :
        /\ solver.calls = 2
        /\ ~LostTracking(p[1])
        /\ p[1] # solver.given
        /\ OnlyTipDiffers(p[1], solver.given, 9)
        /\ Dist(p[1][9].pos, p[1][0].pos) < Dist(solver.given[9].pos, solver.given[0].pos)
        /\ p[2][3] < solver.q_desired[3]

\* C23: the first action the control loop publishes has target_time -
\* timestamp equal to the warm-up duration, every later one has it equal to
\* 1/teleop_frequency: the warm-up value is used in the first cycle only
C23_WarmUpOnce ==
    \A i \in 1..Len(loop.published) :
        loop.published[i].target_time - loop.published[i].timestamp
            = IF i = 1 THEN time_to_get_to_initial_pose ELSE Period

\* three actions were published
C23_Witness ==
    /\ Len(loop.published) = 3
    /\ loop.published[1].target_time - loop.published[1].timestamp = 2000
    /\ loop.published[3].target_time - loop.published[3].timestamp = 50

\* C24: a cycle makes the deadline-miss telemetry call if and only if the
\* time from its start to after the publishing and the warm-up wait is
\* strictly greater than 1/teleop_frequency, and after the call the cycle
\* goes on to the rate sleep
C24_MissIffOverPeriod ==
    [][(loop.pc = "measure" /\ loop'.pc # "measure") =>
           /\ loop'.pc = "rate"
           /\ loop'.exc = "none"
           /\ loop'.misses = IF loop.clock - loop.t_start > Period
                             THEN loop.misses + 1 ELSE loop.misses
           /\ loop'.misses \in {loop.misses, loop.misses + 1}]_vars

\* a slow first cycle, then a cycle that took exactly the period and was
\* not reported, then a third cycle started
C24_Witness ==
    /\ loop.cycles = 3
    /\ loop.misses = 1
    /\ loop.pc = "get_action"
    /\ Len(loop.published) = 2
    /\ loop.published[2].timestamp = loop.published[1].timestamp + 2000 + Period

\* C25 (as claimed): however main() is left, ros_manager.shutdown() has run
\* exactly once and the relay client holds neither its socket nor its
\* context
C25_TeardownOnExit ==
    loop.pc \in {"returned", "raised"} =>
        /\ loop.shutdowns = 1
        /\ client.socket = NoSocket
        /\ client.context = 0

\* C26: once the shutdown signal is raised no cycle is started, and the
\* loop reaches its finally clause, whatever the relay answers
C26_SignalEndsLoop ==
    /\ [][~loop.ok => ~(loop.pc = "cond" /\ loop'.pc = "get_action")]_vars
    /\ (~loop.ok ~> loop.pc \in {"finally", "returned", "raised"})

\* the signal came during the second cycle, whose get_action found the
\* server dead for the second time, and main() has returned
C26_Witness ==
    /\ ~loop.ok
    /\ loop.pc = "returned"
    /\ loop.exc = "none"
    /\ loop.cycles = 2
    /\ Len(loop.published) = 2
    /\ client.socket.awaiting
    /\ client.outcome = "send_error"

\* C27 (as claimed): in every frame the emission task has written, the six
\* targets of each hand are what the hand's command slots held before or
\* after a set_hand_cmd call, never a partly applied command
C27_FramesWhole ==
    bridge.wire # Unset =>
        \A h \in BOOLEAN : Slice(bridge.wire, h) \in bridge.whole[h]

\* C28: the emission task holds the command lock only while it copies the
\* twelve entries, not during the channel write; the ingestion task can
\* take its next step whoever holds the lock; and whoever waits for the
\* lock waits for a holder that can take its next step
C28_TasksNeverWait ==
    /\ bridge.send.pc # "copy" => \A l \in 1..2 : bridge.held[l] # "send"
    /\ (\/ bridge.recv.pc \in {"read", "store"}
        \/ bridge.recv.pc = "test" /\ (bridge.running => bridge.reads < MaxTaskIters))
           => ENABLED IngestStep
    /\ (bridge.send.pc = "lock" /\ bridge.held[bridge.send.lock] # "free")
           => ENABLED SetStore
    /\ (bridge.call.pc = "lock" /\ bridge.held[bridge.call.lock] # "free")
           => ENABLED EmitCopy

\* the ingestion task is storing a frame while a set_hand_cmd call is half
\* way through its writes and the emission task waits for the lock
C28_Witness ==
    /\ bridge.recv.pc = "store"
    /\ bridge.call.pc = "store"
    /\ bridge.call.i = 3
    /\ bridge.send.pc = "lock"
    /\ bridge.send.lock = bridge.call.lock

\* a task that has left its loop or died
Ended == {"stopped", "dead"}

\* C29: while the running flag is clear no task starts an iteration and a
\* frame is written only by an iteration that is already past its test;
\* a task at its test stops; and unless the flag is set again both tasks
\* end
C29_ClearedFlagStopsTasks ==
    /\ [][(bridge.built /\ ~bridge.running) =>
              /\ ~(bridge.send.pc = "test" /\ bridge'.send.pc = "lock")
              /\ ~(bridge.recv.pc = "test" /\ bridge'.recv.pc = "read")
              /\ bridge.send.pc \in {"test"} \cup Ended => bridge'.wire = bridge.wire
              /\ bridge.recv.pc \in {"test"} \cup Ended => bridge'.recv.pc \in {"test"} \cup Ended]_vars
    /\ ((bridge.built /\ ~bridge.running) ~>
            (bridge.running \/ (bridge.send.pc \in Ended /\ bridge.recv.pc \in Ended)))

\* the flag was cleared during an iteration of each task: the emission
\* task wrote that frame, and both tasks stopped at their next test
C29_Witness ==
    /\ ~bridge.running
    /\ bridge.send.pc = "stopped"
    /\ bridge.recv.pc = "stopped"
    /\ bridge.frames = 1
    /\ bridge.reads = 1

\* C30 (as claimed): the reply socket exists and requests are received only
\* after the vendor service was spawned and the grace period slept, and
\* when the activate() scope has been left a spawned service has been
\* killed once and a service that was never spawned has not been killed
C30_ServiceLifecycle ==
    /\ server.pc \in {"service", "sleep"} => server.socket = "none" /\ server.requests = 0
    /\ (server.socket = "open" \/ server.requests > 0) => server.pico_service_pid # 0
    /\ server.pc = "exited" =>
           server.kills = IF server.pico_service_pid # 0 THEN 1 ELSE 0

\* the thresholds (close, open) of digit d in mm: the thumb's and the other
\* four digits'
CloseOf(d) == IF d = 0 THEN 50 ELSE 60

OpenOf(d) == IF d = 0 THEN 90 ELSE 100

TipOfChannel == [c \in 0..4 |-> CASE c = 0 -> 24 [] c = 1 -> 19 [] c = 2 -> 14
                                    [] c = 3 -> 9 [] c = 4 -> 4]

\* C32: for a non-zero tensor channel 0 is the little finger's curl (tip
\* 24), 1 the ring finger's (19), 2 the middle finger's (14), 3 the index
\* finger's (9), 4 the thumb's (4), channel 5 is 1.0 and channel 6 is 0.0;
\* two calls whose tensors differ in the position of one fingertip only
\* differ in no channel but that digit's
C32_ChannelMap ==
    /\ \A p \in CallsMade :
           ~LostTracking(p[1]) =>
               /\ p[2][5] = One
               /\ p[2][6] = 0
               /\ \A c \in 0..4 :
                      p[2][c] = Curl(Dist(p[1][TipOfChannel[c]].pos, p[1][0].pos),
                                     IF c = 4 THEN 90 ELSE 100, IF c = 4 THEN 50 ELSE 60)
    /\ \A p \in CallsMade, q \in CallsMade, c \in 0..4 :
           (/\ ~LostTracking(p[1])
            /\ ~LostTracking(q[1])
            /\ OnlyTipDiffers(p[1], q[1], TipOfChannel[c]))
               => \A k \in 0..6 : k # c => p[2][k] = q[2][k]

\* two calls whose tensors differ in the little finger's tip only: channel
\* 0 differs, the thumb's channel 4 is the same and differs from channel 0
C32_Witness ==
    \E p \in solver.seen :
        /\ solver.calls = 2
        /\ ~LostTracking(p[1])
        /\ OnlyTipDiffers(p[1], solver.given, 24)
        /\ p[2][0] # solver.q_desired[0]
        /\ p[2][4] = solver.q_desired[4]
        /\ p[2][4] # p[2][0]
        /\ solver.q_desired[5] = One
        /\ solver.q_desired[6] = 0

\* the client's result of this cycle is degraded for hand h (TRUE: left): a
\* receive timeout, a transport error, an error payload, or fewer than 25
\* joints for that hand
DegradedFor(h) ==
    \/ client.outcome \in {"timeout", "send_error", "recv_error", "error_reply"}
    \/ /\ client.outcome = "reply"
       /\ LET j == IF h THEN client.data.val.left_hand_joints
                   ELSE client.data.val.right_hand_joints
          IN  ~j.some \/ PyLen(j.joints) < 25

\* hand h has a command with all five finger channels at 1.0
OpenCommand(h) == policy.q[h] # Unset /\ \A c \in 0..4 : policy.q[h][c] = One

\* C33: after every cycle in which the relay client's result for a hand is
\* degraded, the solver's command for that hand has all five finger
\* channels at 1.0
C33_DegradedOpens ==
    \A h \in BOOLEAN :
        (policy.cycles > 0 /\ policy.pc \in {"get", "raised"} /\ DegradedFor(h))
            => OpenCommand(h)

\* the same for the cycles in which get() returned
DegradedOpensWhenReturned ==
    \A h \in BOOLEAN :
        (policy.cycles > 0 /\ policy.pc = "get" /\ DegradedFor(h)) => OpenCommand(h)

\* C34: a cycle acquires the action, stamps it, publishes it, in that order;
\* each cycle publishes exactly once, an action that carries timestamp and
\* target_time; the warm-up wait is made after the first cycle's publish, is
\* over before the second cycle's acquisition starts, and is made in no
\* later cycle
C34_CycleOrder ==
    [][loop'.pc # loop.pc =>
          /\ loop'.pc = "get_action" =>
                 /\ loop.pc = "cond"
                 /\ Len(loop.published) = loop.cycles
                 /\ loop'.cycles = loop.cycles + 1
                 /\ loop.cycles = 1 =>
                        loop.clock >= loop.published[1].timestamp + time_to_get_to_initial_pose
          /\ loop'.pc = "stamp" => loop.pc = "get_action"
          /\ loop'.pc = "publish" =>
                 /\ loop.pc = "stamp"
                 /\ loop'.data.some
                 /\ {"timestamp", "target_time"} \subseteq DOMAIN loop'.data.val
                 /\ loop'.data.val.timestamp >= loop.t_start
          /\ loop'.published # loop.published =>
                 /\ loop.pc = "publish"
                 /\ loop'.published = Append(loop.published, loop.data.val)
                 /\ Len(loop'.published) = loop.cycles
          /\ loop.pc = "publish" /\ loop'.published # loop.published => loop'.pc = "warmup"
          /\ loop.pc = "warmup" =>
                 /\ Len(loop.published) = loop.cycles
                 /\ loop'.clock - loop.clock
                        = IF loop.cycles = 1 THEN time_to_get_to_initial_pose ELSE 0]_vars

\* the third cycle has published and passed the place of the warm-up wait:
\* three actions, and the second cycle began 2 s or more after the first
\* action's timestamp
C34_Witness ==
    /\ loop.pc = "measure"
    /\ loop.cycles = 3
    /\ Len(loop.published) = 3
    /\ loop.published[2].timestamp >= loop.published[1].timestamp + 2000
    /\ loop.published[3].timestamp < loop.published[2].timestamp + 2000

\* C35: a call with missed_keys_only = False on a dictionary that lacks an
\* override key raises KeyError and leaves the dictionary as it was; a call
\* with missed_keys_only = True adds the absent override keys and leaves the
\* value of every override key that was present as it was
C35_OverrideValidates ==
    wbc.calls > 0 =>
        /\ (~wbc.missed_keys_only /\ ~(OverrideKeys \subseteq DOMAIN wbc.before))
               => wbc.raised = "KeyError" /\ wbc.wbc_config = wbc.before
        /\ wbc.missed_keys_only =>
               /\ OverrideKeys \subseteq DOMAIN wbc.wbc_config
               /\ \A k \in OverrideKeys \cap DOMAIN wbc.before :
                      wbc.wbc_config[k] = wbc.before[k]

\* the second half of C35 alone: what a call with missed_keys_only = True
\* does to the override keys
MissedKeysOnlyKeeps ==
    (wbc.calls > 0 /\ wbc.missed_keys_only) =>
        /\ OverrideKeys \subseteq DOMAIN wbc.wbc_config
        /\ \A k \in OverrideKeys :
               wbc.wbc_config[k] = IF k \in DOMAIN wbc.before THEN wbc.before[k]
                                   ELSE KeyToValue(wbc.env_type)[k]

\* the step is one of the set_hand_cmd call of thread who ("call" or "peer")
StepOf(who) == bridge'[who] # bridge[who]

\* C36: no step of a set_hand_cmd call for one hand changes a command slot
\* of the other hand or the state mirror, however the calls of two threads
\* interleave; the slots it changes are those of its own hand
C36_OtherHandUntouched ==
    [][\A who \in {"call", "peer"} :
          StepOf(who) =>
              LET h == IF bridge[who].pc = "idle" THEN bridge'[who].is_left
                       ELSE bridge[who].is_left
              IN  /\ \A j \in Motors :
                         bridge'.cmd_q[j] # bridge.cmd_q[j]
                             => j \in (IF h THEN 6..11 ELSE 0..5)
                  /\ \A j \in 0..5 : bridge'.cmd_q[StartIdx(~h) + j] = bridge.cmd_q[StartIdx(~h) + j]
                  /\ bridge'.mirror = bridge.mirror
                  /\ bridge'.recv = bridge.recv]_vars

\* both threads are in the middle of their loops at once, one for each
\* hand, a frame has reached the state mirror, and the left hand's slots
\* hold part of one call's values while the right hand's hold part of the
\* other's
C36_Witness ==
    /\ bridge.call.pc = "store"
    /\ bridge.peer.pc = "store"
    /\ bridge.call.is_left
    /\ ~bridge.peer.is_left
    /\ bridge.call.i = 3
    /\ bridge.peer.i = 3
    /\ bridge.mirror = 1
    /\ bridge.cmd_q[6] = 30
    /\ bridge.cmd_q[0] = 40
    /\ bridge.cmd_q[11] = 1

\* a get() that meets a server which answers with a snapshot, and whose
\* result is derived from that snapshot
GetAnswered ==
    \E x \in Exchanges :
        /\ x.kind = "reply"
        /\ ServerData(x).some
        /\ Get(x)
        /\ client'.outcome = "reply"
        /\ client'.data = x.data

\* C37: after a get() whose receive timed out, a later get() on the same
\* started client that is issued when the server answers returns the
\* tensors derived from that answer
C37_RecoversFromTimeout ==
    (Started /\ client.call = "get" /\ client.outcome = "timeout" /\ client.gets < MaxGets)
        => ENABLED GetAnswered

\* the same for a started client whose socket awaits no reply
AnsweredWhenIdle ==
    (Started /\ ~client.socket.awaiting /\ client.gets < MaxGets) => ENABLED GetAnswered

\* C38: a get() on a client that holds no socket raises the not-started
\* error, sends no request and creates no socket and no context
C38_NotStartedFails ==
    [][(client.socket.id = 0 /\ client'.gets # client.gets) =>
          /\ client'.raised = "RuntimeError"
          /\ client'.outcome = "not_started"
          /\ client'.sent = client.sent
          /\ client'.sockets = client.sockets
          /\ client'.contexts = client.contexts
          /\ client'.socket = NoSocket
          /\ client'.context = client.context
          /\ client'.closed = client.closed
          /\ client'.termed = client.termed]_vars

\* a get() that raised the not-started error after the client was started
\* and stopped, preceded by one that raised it before any start
C38_Witness ==
    /\ client.call = "get"
    /\ client.raised = "RuntimeError"
    /\ client.gets = 2
    /\ client.starts = 1
    /\ client.stops = 1
    /\ client.closed = {1}
    /\ client.sent = 0
    /\ client.sockets = 1

\* snapshots a and b are equal but for the tracking-validity flags and the
\* timestamp
SameButFlags(a, b) ==
    /\ a.headset_pose = b.headset_pose
    /\ a.left_hand_joints = b.left_hand_joints
    /\ a.right_hand_joints = b.right_hand_joints

\* C39: two cycles whose snapshots differ only in the tracking-validity
\* flags or the timestamp derive the same tensor for each hand, and so get
\* the same command for each hand
C39_FlagsIgnored ==
    (/\ policy.pc = "get"
     /\ policy.prev.some
     /\ policy.prev.data.some
     /\ client.data.some
     /\ SameButFlags(policy.prev.data.val, client.data.val))
        => /\ client.left = policy.prev.left
           /\ client.right = policy.prev.right
           /\ policy.q = policy.prev.q

\* two cycles with the same 25 left-hand joints, the first flagged tracked,
\* the second not: the same non-zero tensor and the same command, which is
\* not the open one
C39_Witness ==
    /\ policy.pc = "get"
    /\ policy.prev.some
    /\ policy.prev.data.some
    /\ client.data.some
    /\ SameButFlags(policy.prev.data.val, client.data.val)
    /\ policy.prev.data.val.left_hand_tracking_state
    /\ ~client.data.val.left_hand_tracking_state
    /\ policy.prev.data.val.timestamp = 2
    /\ client.data.val.timestamp = 1
    /\ PyLen(client.data.val.left_hand_joints.joints) = 25
    /\ client.left # ZeroTensor
    /\ client.left = policy.prev.left
    /\ policy.q[TRUE] = policy.prev.q[TRUE]
    /\ policy.q[TRUE][1] < One

\* the tensor the last get() derived for hand h (TRUE: left)
TensorOf(h) == IF h THEN client.left ELSE client.right

\* the last get() received 25 or more joints for hand h
FullHand(h) ==
    /\ client.data.some
    /\ HandJoints(client.data.val, h).some
    /\ PyLen(HandJoints(client.data.val, h).joints) >= 25

\* C40: a tensor the client derives from 25 or more joints has bottom-right
\* entry 1 in each of its 25 transforms and is not all-zero, the solver
\* takes the lost-tracking branch exactly for the tensors derived from
\* fewer joints or from no answer, and a hand whose joints all lie at one
\* position gets the five finger channels 0.0, not the open fallback
C40_SentinelOnly ==
    (policy.cycles > 0 /\ policy.pc = "get") =>
        \A h \in BOOLEAN :
            /\ FullHand(h) =>
                   /\ \A i \in 0..24 : TensorOf(h)[i].w = 1
                   /\ TensorOf(h) # ZeroTensor
                   /\ (\A i \in 0..24 :
                           HandJoints(client.data.val, h).joints[i].pos
                               = HandJoints(client.data.val, h).joints[0].pos)
                          => \A c \in 0..4 : policy.q[h][c] = 0
            /\ LostTracking(TensorOf(h)) <=> ~FullHand(h)
            /\ ~FullHand(h) => TensorOf(h) = ZeroTensor

\* a cycle in which the right hand's 26 joints all lie at one position: its
\* tensor is not the zero tensor and its finger channels are 0.0, while the
\* left hand, without joints, has the zero tensor and the open command
C40_Witness ==
    /\ policy.cycles > 0
    /\ policy.pc = "get"
    /\ FullHand(FALSE)
    /\ \A i \in 0..25 : client.data.val.right_hand_joints.joints[i].pos
                            = client.data.val.right_hand_joints.joints[0].pos
    /\ client.right # ZeroTensor
    /\ client.right[24].w = 1
    /\ \A c \in 0..4 : policy.q[FALSE][c] = 0
    /\ policy.q[FALSE][5] = One
    /\ ~FullHand(TRUE)
    /\ client.left = ZeroTensor
    /\ \A c \in 0..4 : policy.q[TRUE][c] = One

====
